---------------------------- MODULE Spec2Model ----------------------------
(***************************************************************************)
(* A model of the glyph extrusion pipeline of bevy-mesh-text-3d:           *)
(*   offset.rs  contour extraction, vertex cleanup, bevel ring engine      *)
(*   tess.rs    front cap tessellation with its retry ladder               *)
(*   mesh.rs    mesh builders and the mesh validator                       *)
(*   glyph.rs   glyph outline extraction                                   *)
(*   extrude_glyph.rs  the beveled glyph pipeline                          *)
(*   text_glyphs.rs    mesh glyphs of a laid out text, with their cache    *)
(*                                                                         *)
(* Coordinates are integers on a grid.  The 2D grid of offset.rs has       *)
(* VERTEX_TOLERANCE grid units per vertex tolerance (1e-4), so that two    *)
(* grid points can be distinct and still closer than the tolerance.  The   *)
(* external libraries (cavalier_contours' parallel_offset, lyon's fill     *)
(* tessellator) are nondeterministic choices over what they can return.    *)
(***************************************************************************)
EXTENDS Integers, Sequences, FiniteSets, TLC

VARIABLES
    pc,               \* position of the running function
    \* ---- offset.rs: extract_contours
    contours,         \* Vec<Contour>: output of extract_contours, input of compute_bevel_rings
    current_vertices, \* extract_contours: vertices of the subpath being read
    start_pos,        \* extract_contours: first vertex of the subpath being read
    in_subpath,       \* the path iterator is between a Begin and its End
    subpaths_read,    \* number of subpaths the path iterator has ended
    scale_factor,     \* extract_contours: parameter
    center_x,         \* extract_contours: parameter
    center_y,         \* extract_contours: parameter
    \* ---- offset.rs: compute_bevel_rings
    bevel_segments,   \* parameter
    next_contour,     \* index of the next contour the conversion loop reads
    polylines,        \* Vec<Polyline> built by the conversion loop
    source_of,        \* for each polyline, the index of the contour it came from
    next_polyline,    \* index of the polyline being processed
    bevel_rings,      \* Vec<Contour> of the polyline being processed
    curr_offset,      \* the Shape returned by the last parallel_offset call
    offset_requests,  \* per processed polyline: the distances requested, in offset steps
    all_bevel_rings,  \* Vec<BevelRings>
    rings_result,     \* what compute_bevel_rings returned
    \* ---- tess.rs: tessellate_front_cap
    path,             \* the points of the glyph path, in font units
    bounding_box,     \* parameter, in font units
    font_size,        \* parameter
    units_per_em,     \* parameter
    options,          \* the FillOptions of try_tessellation_with_fallbacks
    geometry,         \* the VertexBuffers the tessellator writes to
    attempts,         \* per tessellate_path call: its options, its outcome, what it wrote
    tess_result,      \* what tessellate_front_cap returned
    \* ---- mesh.rs: build_beveled_mesh and build_mesh_from_bevel_rings
    front_cap,        \* parameters front_cap_vertices and front_cap_indices
    extrusion_depth,  \* parameter
    next_ring,        \* index of the BevelRings the ring loop reads next
    mesh_vertices,    \* the vertices built so far
    mesh_indices,     \* the indices built so far
    cap_attempts,     \* per cap: the outcome of each tessellate_path call
    mesh_result,      \* what the mesh builder returned
    \* ---- mesh.rs: check_mesh
    mesh_geometry,    \* parameter: the BeveledGlyphGeometry under validation
    validation,       \* the counts of check_mesh
    check_result,     \* what check_mesh returned
    \* ---- glyph.rs: extract_glyph_outline
    glyph_info,       \* parameter: the LayoutGlyph
    font_data,        \* what the font database and the font face hold for the glyph
    outline_result,   \* what extract_glyph_outline returned
    \* ---- extrude_glyph.rs: tessellate_beveled_glyph_with_gizmos
    offset_library,   \* the loops parallel_offset returns, by requested distance
    profile_power,    \* bevel_params.profile_power, passed to compute_bevel_rings
    stages_run,       \* the stages called so far, in call order
    run,              \* 1 in the first run of the stages, 2 in the second
    first_run,        \* what the stages returned in the first run
    pipeline_result,  \* what tessellate_beveled_glyph_with_gizmos returned
    \* ---- text_glyphs.rs: TextGlyphs::generate_mesh_glyphs
    layout_glyphs,    \* the glyphs of the layout runs, in layout order
    glyph_outcomes,   \* per glyph: what the two tessellation functions return for it
    use_beveling,     \* bevel_params.is_some()
    materials,        \* parameter: the number of material handles
    next_glyph,       \* index of the glyph the loop reads next
    mesh_map,         \* HashMap<(u16, bool), (Handle<Mesh>, f32, f32)>, as a list of entries
    meshes,           \* Assets<Mesh>: the geometries added, handle h is the h-th
    tessellations,    \* the tessellation calls made, in call order
    processed_glyphs, \* Vec<MeshGlyph>
    text_result       \* what generate_mesh_glyphs returned

ringsVars == <<bevel_segments, next_contour, polylines, source_of, next_polyline,
               bevel_rings, curr_offset, offset_requests, all_bevel_rings, rings_result>>
extractVars == <<current_vertices, start_pos, in_subpath, subpaths_read,
                 scale_factor, center_x, center_y>>
tessVars == <<path, bounding_box, font_size, units_per_em, options, geometry, attempts,
              tess_result>>
meshVars == <<front_cap, extrusion_depth, next_ring, mesh_vertices, mesh_indices,
              cap_attempts, mesh_result>>
checkVars == <<mesh_geometry, validation, check_result>>
outlineVars == <<glyph_info, font_data, outline_result>>
pipelineVars == <<offset_library, profile_power, stages_run, run, first_run, pipeline_result>>
textVars == <<layout_glyphs, glyph_outcomes, use_beveling, materials, next_glyph, mesh_map,
              meshes, tessellations, processed_glyphs, text_result>>
glyphSideVars == <<outlineVars, pipelineVars, textVars>>

\* what the functions of one part of the pipeline leave alone
outsideRings == <<extractVars, tessVars, meshVars, checkVars, glyphSideVars>>
outsideExtract == <<ringsVars, tessVars, meshVars, checkVars, glyphSideVars>>
outsideTess == <<contours, extractVars, ringsVars, meshVars, checkVars, glyphSideVars>>
outsideMesh == <<contours, extractVars, ringsVars, tessVars, checkVars, glyphSideVars>>
outsideCheck == <<contours, extractVars, ringsVars, tessVars, meshVars, glyphSideVars>>
outsideOutline == <<contours, extractVars, ringsVars, tessVars, meshVars, checkVars,
                    pipelineVars, textVars>>
outsideText == <<contours, extractVars, ringsVars, tessVars, meshVars, checkVars,
                 outlineVars, pipelineVars>>

-----------------------------------------------------------------------------
(* Bounds of the model *)

MaxContours == 2      \* contours handed to compute_bevel_rings
MaxSegments == 3      \* largest bevel_segments
MaxLoops == 2         \* loops one parallel_offset call returns at most
MaxVerts == 4         \* vertices of the contour of SpecRingsAny

-----------------------------------------------------------------------------
(* Helpers *)

Abs(x) == IF x < 0 THEN -x ELSE x
Min(a, b) == IF a <= b THEN a ELSE b
Max(a, b) == IF a >= b THEN a ELSE b

SeqsUpTo(S, n) == UNION {[1..k -> S] : k \in 0..n}

\* Vec::remove(i), i counted from 0
RemoveAt(s, i) == [k \in 1..(Len(s) - 1) |-> IF k <= i THEN s[k] ELSE s[k + 1]]

\* Vec2::distance(a, b) squared
Dist2(a, b) == (a[1] - b[1]) * (a[1] - b[1]) + (a[2] - b[2]) * (a[2] - b[2])

\* f32::round of c / d (d > 0): to the nearest integer, halves away from zero
RoundDiv(c, d) ==
    IF c >= 0 THEN (2 * c + d) \div (2 * d) ELSE -((2 * (-c) + d) \div (2 * d))

-----------------------------------------------------------------------------
(* offset.rs: vertex cleanup *)

\* const VERTEX_TOLERANCE: f32 = 1e-4, in grid units
VERTEX_TOLERANCE == 2

\* a.distance(b) < VERTEX_TOLERANCE
Near(a, b) == Dist2(a, b) < VERTEX_TOLERANCE * VERTEX_TOLERANCE

\* the hash key of deduplicate_vertices' second pass
HashKey(v) == <<RoundDiv(v[1], VERTEX_TOLERANCE), RoundDiv(v[2], VERTEX_TOLERANCE)>>

\* first pass of deduplicate_vertices: the while loop from index i (from 0)
RECURSIVE RemoveConsecutive(_, _)
RemoveConsecutive(vs, i) ==
    IF i < Len(vs) - 1
    THEN IF Near(vs[i + 1], vs[i + 2])
         THEN RemoveConsecutive(RemoveAt(vs, i + 1), i)
         ELSE RemoveConsecutive(vs, i + 1)
    ELSE vs

\* second pass of deduplicate_vertices: keep the first vertex of every hash key
RECURSIVE KeepUnseen(_, _, _, _)
KeepUnseen(vs, k, seen_positions, unique_vertices) ==
    IF k > Len(vs) THEN unique_vertices
    ELSE IF HashKey(vs[k]) \in seen_positions
         THEN KeepUnseen(vs, k + 1, seen_positions, unique_vertices)
         ELSE KeepUnseen(vs, k + 1, seen_positions \cup {HashKey(vs[k])},
                         Append(unique_vertices, vs[k]))

\* a deduplication that returns the kept vertices in the iteration order of
\* its hash set, which changes from one call to the next
deduplicate_in_set_order(vertices) ==
    LET kept == IF Len(vertices) < 2 THEN vertices
                ELSE KeepUnseen(RemoveConsecutive(vertices, 0), 1, {}, <<>>)
    IN  IF run = 2 THEN [i \in 1..Len(kept) |-> kept[Len(kept) + 1 - i]] ELSE kept

deduplicate_vertices(vertices) ==
    IF Len(vertices) < 2 THEN vertices
    ELSE KeepUnseen(RemoveConsecutive(vertices, 0), 1, {}, <<>>)

\* the last while loop of cleanup_vertices_for_offset, from index i (from 0)
RECURSIVE RemoveCloseNeighbours(_, _)
RemoveCloseNeighbours(vs, i) ==
    IF i < Len(vs) /\ Len(vs) > 3
    THEN LET next_idx == (i + 1) % Len(vs)
         IN  IF Near(vs[i + 1], vs[next_idx + 1])
             THEN LET removed == RemoveAt(vs, IF i < next_idx THEN i ELSE next_idx)
                  IN  IF i >= Len(removed) THEN removed
                      ELSE RemoveCloseNeighbours(removed, i)
             ELSE RemoveCloseNeighbours(vs, i + 1)
    ELSE vs

\* the pop of a last vertex that duplicates the first
PopClosing(vs) ==
    IF Len(vs) > 3 /\ Near(vs[1], vs[Len(vs)]) THEN SubSeq(vs, 1, Len(vs) - 1) ELSE vs

\* cleanup that forgets to deduplicate
cleanup_without_dedup(vertices) ==
    IF Len(vertices) < 3 THEN vertices
    ELSE RemoveCloseNeighbours(PopClosing(vertices), 0)

cleanup_vertices_for_offset(vertices) ==
    IF Len(vertices) < 3 THEN vertices
    ELSE LET deduped == deduplicate_vertices(vertices)
         IN  IF Len(deduped) < 3 THEN deduped
             ELSE RemoveCloseNeighbours(PopClosing(deduped), 0)

-----------------------------------------------------------------------------
(* offset.rs: contours and polylines *)

Contour(vertices, is_closed) == [vertices |-> vertices, is_closed |-> is_closed]

PlineVertex(v) == [x |-> v[1], y |-> v[2], bulge |-> 0]

NoPolyline == [vertex_data |-> <<>>, is_closed |-> FALSE]

\* The minimum vertex count contour_to_polyline asks for
MinPolylineVertices == 3

\* a conversion that asks for one vertex too many
contour_to_polyline_off_by_one(contour) ==
    LET vertices == cleanup_vertices_for_offset(contour.vertices)
    IN  IF Len(vertices) <= MinPolylineVertices
        THEN [kind |-> "Err", err |-> "InvalidContour", polyline |-> NoPolyline]
        ELSE [kind |-> "Ok", err |-> "",
              polyline |-> [vertex_data |-> [k \in 1..Len(vertices) |-> PlineVertex(vertices[k])],
                            is_closed |-> contour.is_closed]]

contour_to_polyline(contour) ==
    LET vertices == cleanup_vertices_for_offset(contour.vertices)
    IN  IF Len(vertices) < MinPolylineVertices
        THEN [kind |-> "Err", err |-> "InvalidContour", polyline |-> NoPolyline]
        ELSE [kind |-> "Ok", err |-> "",
              polyline |-> [vertex_data |-> [k \in 1..Len(vertices) |-> PlineVertex(vertices[k])],
                            is_closed |-> contour.is_closed]]

polyline_to_contour(polyline) ==
    Contour([k \in 1..Len(polyline.vertex_data) |->
                <<polyline.vertex_data[k].x, polyline.vertex_data[k].y>>],
            polyline.is_closed)


-----------------------------------------------------------------------------
(* offset.rs: compute_bevel_rings *)

\* Input contours of the bevel ring engine: a counter-clockwise triangle, a
\* clockwise square (a hole) that repeats its first vertex and has a
\* near-duplicate, and contours that cleanup leaves with fewer than 3 vertices.
Triangle == Contour(<< <<0, 0>>, <<8, 0>>, <<0, 8>> >>, TRUE)
SquareWithDuplicates ==
    Contour(<< <<0, 0>>, <<0, 8>>, <<8, 8>>, <<8, 1>>, <<8, 0>>, <<0, 0>> >>, TRUE)
Cluster == Contour(<< <<0, 0>>, <<1, 0>>, <<0, 1>>, <<1, 1>> >>, TRUE)
SinglePoint == Contour(<< <<4, 4>>, <<4, 4>>, <<4, 4>> >>, TRUE)
Segment == Contour(<< <<0, 0>>, <<8, 0>> >>, TRUE)
Collapsing == Contour(<< <<0, 0>>, <<1, 0>>, <<8, 0>>, <<8, 1>> >>, TRUE)
SampleContours ==
    {Triangle, SquareWithDuplicates, Cluster, SinglePoint, Segment, Collapsing}

\* twice the shoelace area of a vertex list (mesh.rs computes area / 2.0; only
\* its sign is used)
RECURSIVE ShoelaceSum(_, _)
ShoelaceSum(vertices, i) ==
    IF i >= Len(vertices) THEN 0
    ELSE LET j == (i + 1) % Len(vertices)
         IN  vertices[i + 1][1] * vertices[j + 1][2]
             - vertices[j + 1][1] * vertices[i + 1][2]
             + ShoelaceSum(vertices, i + 1)

calculate_signed_area(vertices) ==
    IF Len(vertices) < 3 THEN 0 ELSE ShoelaceSum(vertices, 0)

\* One loop of an offset result: cavalier_contours decides its shape; the
\* model makes it a triangle that tells the requested distance (in offset
\* steps) and the loop's place in the result.
OffsetLoop(distance, j) ==
    [vertex_data |-> << PlineVertex(<<20 * j + distance, distance>>),
                        PlineVertex(<<20 * j + 16 - distance, distance>>),
                        PlineVertex(<<20 * j + distance, 16 - distance>>) >>,
     is_closed |-> TRUE]

\* Shape::from_plines(once(polyline)).parallel_offset at `distance` offset
\* steps: any number of loops, none included.  The shape holds the one
\* polyline, among its counter-clockwise plines or among its clockwise ones,
\* and the loops of its offset are of that same kind.
ParallelOffset(polyline, distance) ==
    {IF calculate_signed_area(polyline_to_contour(polyline).vertices) > 0
     THEN [ccw_plines |-> [j \in 1..n |-> OffsetLoop(distance, j)], cw_plines |-> <<>>]
     ELSE [ccw_plines |-> <<>>, cw_plines |-> [j \in 1..n |-> OffsetLoop(distance, j)]] :
        n \in 0..MaxLoops}

NoOffset == [ccw_plines |-> <<>>, cw_plines |-> <<>>]

OffsetIsEmpty(shape) == shape.ccw_plines = <<>> /\ shape.cw_plines = <<>>

\* curr_offset.ccw_plines.iter().chain(curr_offset.cw_plines.iter())
OffsetLoops(shape) == shape.ccw_plines \o shape.cw_plines

\* a ring count that grows with the profile power
max_ring_count_by_profile == Max(bevel_segments, 1) + profile_power

\* let max_ring_count = bevel_segments.max(1) + 1
max_ring_count == Max(bevel_segments, 1) + 1

\* a while condition that does not look at the offset result
OffsetLoopIgnoresEmpty == Len(bevel_rings) < max_ring_count

\* the while condition of the offset loop
OffsetLoopContinues ==
    ~OffsetIsEmpty(curr_offset) /\ Len(bevel_rings) < max_ring_count

\* the rings the loop body pushes for one offset result
PushOffsetLoops(rings, shape) ==
    rings \o [k \in 1..Len(OffsetLoops(shape)) |-> polyline_to_contour(OffsetLoops(shape)[k])]

\* the BevelRings built from the ring list of one polyline
MakeBevelRings(rings) ==
    [outer_contour |-> rings[1],
     inner_contour |-> rings[Len(rings)],
     rings |-> IF Len(rings) > 2 THEN SubSeq(rings, 2, Len(rings) - 1) ELSE <<>>]

\* BevelParameters::default(): profile_power: 1.0
DefaultProfilePower == 1

NoResult == [kind |-> "None", value |-> <<>>]
Ok(v) == [kind |-> "Ok", value |-> v]
Err(e) == [kind |-> "Err", value |-> e]

\* the variables of the parts that are not running
IdleExtract ==
    /\ current_vertices = <<>>
    /\ start_pos = <<0, 0>>
    /\ in_subpath = FALSE
    /\ subpaths_read = 0
    /\ scale_factor = 1
    /\ center_x = 0
    /\ center_y = 0

IdleRingsLocals ==
    /\ bevel_segments = 1
    /\ next_contour = 1
    /\ polylines = <<>>
    /\ source_of = <<>>
    /\ next_polyline = 1
    /\ bevel_rings = <<>>
    /\ curr_offset = [ccw_plines |-> <<>>, cw_plines |-> <<>>]
    /\ offset_requests = <<>>
    /\ rings_result = NoResult

IdleRings ==
    /\ IdleRingsLocals
    /\ all_bevel_rings = <<>>

IdleMesh ==
    /\ front_cap = [vertices |-> <<>>, indices |-> <<>>]
    /\ extrusion_depth = 0
    /\ next_ring = 1
    /\ mesh_vertices = <<>>
    /\ mesh_indices = <<>>
    /\ cap_attempts = <<>>
    /\ mesh_result = NoResult

NoValidation ==
    [vertex_count |-> 0, triangle_count |-> 0, degenerate_triangles |-> 0,
     invalid_normals |-> 0, extreme_vertices |-> 0]

IdleCheck ==
    /\ mesh_geometry = [vertices |-> <<>>, indices |-> <<>>, normals |-> <<>>, uvs |-> <<>>]
    /\ validation = NoValidation
    /\ check_result = NoResult

NoFont ==
    [found |-> FALSE, parses |-> FALSE, units_per_em |-> 1, has_bounding_box |-> FALSE,
     bounding_box |-> [x_min |-> 0, y_min |-> 0, x_max |-> 0, y_max |-> 0],
     has_outline |-> FALSE, path |-> <<>>]

IdleOutline ==
    /\ glyph_info = [glyph_id |-> 0, font_size |-> 1]
    /\ font_data = NoFont
    /\ outline_result = NoResult

IdlePipeline ==
    /\ offset_library = <<>>
    /\ profile_power = DefaultProfilePower
    /\ stages_run = <<>>
    /\ run = 1
    /\ first_run = <<>>
    /\ pipeline_result = NoResult

IdleText ==
    /\ layout_glyphs = <<>>
    /\ glyph_outcomes = <<>>
    /\ use_beveling = FALSE
    /\ materials = 0
    /\ next_glyph = 1
    /\ mesh_map = <<>>
    /\ meshes = <<>>
    /\ tessellations = <<>>
    /\ processed_glyphs = <<>>
    /\ text_result = NoResult

IdleGlyphSide == IdleOutline /\ IdlePipeline /\ IdleText

IdleTess ==
    /\ path = <<>>
    /\ bounding_box = [x_min |-> 0, y_min |-> 0, x_max |-> 0, y_max |-> 0]
    /\ font_size = 1
    /\ units_per_em = 1
    /\ options = [tolerance |-> 0, fill_rule |-> "EvenOdd"]
    /\ geometry = [vertices |-> <<>>, indices |-> <<>>]
    /\ attempts = <<>>
    /\ tess_result = NoResult

InitRings ==
    /\ IdleExtract /\ IdleTess /\ IdleMesh /\ IdleCheck /\ IdleGlyphSide
    /\ pc = "rings_entry"
    /\ contours \in SeqsUpTo(SampleContours, MaxContours)
    /\ bevel_segments \in 1..MaxSegments
    /\ next_contour = 1
    /\ polylines = <<>>
    /\ source_of = <<>>
    /\ next_polyline = 1
    /\ bevel_rings = <<>>
    /\ curr_offset = NoOffset
    /\ offset_requests = <<>>
    /\ all_bevel_rings = <<>>
    /\ rings_result = NoResult

\* if contours.is_empty() { return Ok(Vec::new()) }
RingsEntry ==
    /\ pc = "rings_entry"
    /\ IF contours = <<>>
       THEN /\ rings_result' = Ok(<<>>)
            /\ pc' = "rings_done"
       ELSE /\ pc' = "rings_convert"
            /\ UNCHANGED rings_result
    /\ UNCHANGED <<outsideRings, contours, bevel_segments, next_contour, polylines, source_of,
                   next_polyline, bevel_rings, curr_offset, offset_requests,
                   all_bevel_rings>>

\* one iteration of the conversion loop
ConvertContour ==
    /\ pc = "rings_convert"
    /\ next_contour <= Len(contours)
    /\ LET converted == contour_to_polyline(contours[next_contour])
       IN  IF converted.kind = "Ok"
           THEN /\ polylines' = Append(polylines, converted.polyline)
                /\ source_of' = Append(source_of, next_contour)
           ELSE UNCHANGED <<polylines, source_of>>
    /\ next_contour' = next_contour + 1
    /\ UNCHANGED <<outsideRings, pc, contours, bevel_segments, next_polyline, bevel_rings, curr_offset,
                   offset_requests, all_bevel_rings, rings_result>>

\* if polylines.is_empty() { return Ok(Vec::new()) }
ConvertDone ==
    /\ pc = "rings_convert"
    /\ next_contour > Len(contours)
    /\ IF polylines = <<>>
       THEN /\ rings_result' = Ok(<<>>)
            /\ pc' = "rings_done"
       ELSE /\ pc' = "rings_polyline"
            /\ UNCHANGED rings_result
    /\ UNCHANGED <<outsideRings, contours, bevel_segments, next_contour, polylines, source_of,
                   next_polyline, bevel_rings, curr_offset, offset_requests,
                   all_bevel_rings>>

\* the head of the polyline loop up to the first parallel_offset call
StartPolyline ==
    /\ pc = "rings_polyline"
    /\ next_polyline <= Len(polylines)
    /\ LET polyline == polylines[next_polyline]
       IN  IF Len(polyline.vertex_data) < 3
           THEN /\ next_polyline' = next_polyline + 1
                /\ UNCHANGED <<pc, bevel_rings, curr_offset, offset_requests>>
           ELSE /\ bevel_rings' = <<polyline_to_contour(polyline)>>
                /\ curr_offset' \in ParallelOffset(polyline, 1)
                /\ offset_requests' =
                       Append(offset_requests,
                              <<[distance |-> 1, loops |-> Len(OffsetLoops(curr_offset'))]>>)
                /\ pc' = "rings_offsets"
                /\ UNCHANGED next_polyline
    /\ UNCHANGED <<outsideRings, contours, bevel_segments, next_contour, polylines, source_of,
                   all_bevel_rings, rings_result>>

\* the while loop: its test and one run of its body
OffsetStep ==
    /\ pc = "rings_offsets"
    /\ IF OffsetLoopContinues
       THEN LET pushed == PushOffsetLoops(bevel_rings, curr_offset)
            IN  /\ bevel_rings' = pushed
                /\ IF Len(pushed) >= max_ring_count
                   THEN /\ pc' = "rings_assemble"
                        /\ UNCHANGED <<curr_offset, offset_requests>>
                   ELSE /\ curr_offset' \in ParallelOffset(polylines[next_polyline], Len(pushed))
                        /\ offset_requests' =
                               [offset_requests EXCEPT ![Len(offset_requests)] =
                                   Append(@, [distance |-> Len(pushed),
                                              loops |-> Len(OffsetLoops(curr_offset'))])]
                        /\ UNCHANGED pc
       ELSE /\ pc' = "rings_assemble"
            /\ UNCHANGED <<bevel_rings, curr_offset, offset_requests>>
    /\ UNCHANGED <<outsideRings, contours, bevel_segments, next_contour, polylines, source_of,
                   next_polyline, all_bevel_rings, rings_result>>

\* after the loop: the BevelRings of this polyline; the loop's locals go out of scope
AssembleBevelRings ==
    /\ pc = "rings_assemble"
    /\ all_bevel_rings' = Append(all_bevel_rings, MakeBevelRings(bevel_rings))
    /\ next_polyline' = next_polyline + 1
    /\ bevel_rings' = <<>>
    /\ curr_offset' = NoOffset
    /\ pc' = "rings_polyline"
    /\ UNCHANGED <<outsideRings, contours, bevel_segments, next_contour, polylines, source_of,
                   offset_requests, rings_result>>

\* Ok(all_bevel_rings)
RingsReturn ==
    /\ pc = "rings_polyline"
    /\ next_polyline > Len(polylines)
    /\ rings_result' = Ok(all_bevel_rings)
    /\ pc' = "rings_done"
    /\ UNCHANGED <<outsideRings, contours, bevel_segments, next_contour, polylines, source_of,
                   next_polyline, bevel_rings, curr_offset, offset_requests,
                   all_bevel_rings>>

NextRings ==
    \/ RingsEntry
    \/ ConvertContour
    \/ ConvertDone
    \/ StartPolyline
    \/ OffsetStep
    \/ AssembleBevelRings
    \/ RingsReturn

vars == <<pc, contours, ringsVars, extractVars, tessVars, meshVars, checkVars, glyphSideVars>>

SpecRings ==
    /\ InitRings
    /\ [][NextRings]_vars


\* compute_bevel_rings on one contour, whose vertices are any list of grid
\* points: two points closer than the tolerance and two far from all others.
GridPoints == {<<0, 0>>, <<1, 0>>, <<8, 0>>, <<0, 8>>}

InitRingsAny ==
    /\ IdleExtract /\ IdleTess /\ IdleMesh /\ IdleCheck /\ IdleGlyphSide
    /\ pc = "rings_entry"
    /\ contours \in {<<>>} \cup {<<Contour(vs, closed)>> :
                                    vs \in SeqsUpTo(GridPoints, MaxVerts), closed \in BOOLEAN}
    /\ bevel_segments \in 1..MaxSegments
    /\ next_contour = 1
    /\ polylines = <<>>
    /\ source_of = <<>>
    /\ next_polyline = 1
    /\ bevel_rings = <<>>
    /\ curr_offset = NoOffset
    /\ offset_requests = <<>>
    /\ all_bevel_rings = <<>>
    /\ rings_result = NoResult

SpecRingsAny ==
    /\ InitRingsAny
    /\ [][NextRings]_vars

-----------------------------------------------------------------------------
(* offset.rs: extract_contours *)

\* The path iterator hands extract_contours one event at a time: Begin, then
\* Line, Quadratic and Cubic segments, then End.  The points of the path, in
\* font units:
PathPoints == {<<0, 0>>, <<1, 0>>, <<0, 8>>}

\* the control points of its curves
ControlPoints == {<<8, 8>>, <<0, 8>>}

MaxSubpaths == 1      \* subpaths of a path
MaxLineVerts == 3     \* vertices of a subpath made of lines

\* segments of the Quadratic and Cubic approximations
QuadraticSegments == 8
CubicSegments == 10

\* (p.x * scale_factor) - center_x, -((p.y * scale_factor) - center_y)
ToContourSpace(p) ==
    <<(p[1] * scale_factor) - center_x, -((p[2] * scale_factor) - center_y)>>

\* from * (1-t)^2 + ctrl * 2(1-t)t + to * t^2 at t = i / segments, one
\* coordinate, rounded to the grid
QuadraticAt(from, ctrl, to, i) ==
    LET n == QuadraticSegments
    IN  RoundDiv(from * (n - i) * (n - i) + ctrl * 2 * (n - i) * i + to * i * i, n * n)

\* from * (1-t)^3 + ctrl1 * 3(1-t)^2 t + ctrl2 * 3(1-t)t^2 + to * t^3
CubicAt(from, ctrl1, ctrl2, to, i) ==
    LET n == CubicSegments
    IN  RoundDiv(from * (n - i) * (n - i) * (n - i) + ctrl1 * 3 * (n - i) * (n - i) * i
                 + ctrl2 * 3 * (n - i) * i * i + to * i * i * i, n * n * n)

\* current_vertices.last().copied().unwrap_or(Vec2::ZERO)
LastOrZero(vs) == IF vs = <<>> THEN <<0, 0>> ELSE vs[Len(vs)]

QuadraticPoints(from, ctrl, to) ==
    [i \in 1..QuadraticSegments |->
        <<QuadraticAt(from[1], ctrl[1], to[1], i), QuadraticAt(from[2], ctrl[2], to[2], i)>>]

CubicPoints(from, ctrl1, ctrl2, to) ==
    [i \in 1..CubicSegments |->
        <<CubicAt(from[1], ctrl1[1], ctrl2[1], to[1], i),
          CubicAt(from[2], ctrl1[2], ctrl2[2], to[2], i)>>]

\* the vertices of the contour an End event pushes: deduplicated, and with
\* the start vertex appended when the subpath is closed and does not end there
FinishSubpath(vs, start, close) ==
    LET deduped == deduplicate_vertices(vs)
    IN  IF close /\ deduped # <<>>
             /\ Dist2(deduped[Len(deduped)], start) > VERTEX_TOLERANCE * VERTEX_TOLERANCE
        THEN Append(deduped, start)
        ELSE deduped

\* the vertex count an End event (and the code after the loop) asks for
MinContourVertices == 3

InitExtract ==
    /\ IdleRings /\ IdleTess /\ IdleMesh /\ IdleCheck /\ IdleGlyphSide
    /\ pc = "extract"
    /\ contours = <<>>
    /\ current_vertices = <<>>
    /\ start_pos = <<0, 0>>
    /\ in_subpath = FALSE
    /\ subpaths_read = 0
    /\ scale_factor \in {1, 2}
    /\ center_x \in {0, 4}
    /\ center_y = 0

\* PathEvent::Begin { at }
EventBegin ==
    /\ pc = "extract"
    /\ ~in_subpath
    /\ subpaths_read < MaxSubpaths
    /\ \E at \in PathPoints :
          /\ start_pos' = ToContourSpace(at)
          /\ current_vertices' = <<ToContourSpace(at)>>
    /\ in_subpath' = TRUE
    /\ UNCHANGED <<outsideExtract, pc, contours, subpaths_read, scale_factor, center_x, center_y>>

\* PathEvent::Line { to }
EventLine ==
    /\ pc = "extract"
    /\ in_subpath
    /\ Len(current_vertices) < MaxLineVerts
    /\ \E to \in PathPoints :
          current_vertices' = Append(current_vertices, ToContourSpace(to))
    /\ UNCHANGED <<outsideExtract, pc, contours, start_pos, in_subpath, subpaths_read,
                   scale_factor, center_x, center_y>>

\* PathEvent::Quadratic { ctrl, to }
EventQuadratic ==
    /\ pc = "extract"
    /\ in_subpath
    /\ Len(current_vertices) + 1 < MaxLineVerts
    /\ \E ctrl \in ControlPoints, to \in PathPoints :
          current_vertices' =
              current_vertices \o QuadraticPoints(LastOrZero(current_vertices),
                                                  ToContourSpace(ctrl), ToContourSpace(to))
    /\ UNCHANGED <<outsideExtract, pc, contours, start_pos, in_subpath, subpaths_read,
                   scale_factor, center_x, center_y>>

\* PathEvent::Cubic { ctrl1, ctrl2, to }
EventCubic ==
    /\ pc = "extract"
    /\ in_subpath
    /\ Len(current_vertices) + 1 < MaxLineVerts
    /\ \E ctrl1 \in ControlPoints, ctrl2 \in ControlPoints, to \in PathPoints :
          current_vertices' =
              current_vertices \o CubicPoints(LastOrZero(current_vertices),
                                              ToContourSpace(ctrl1), ToContourSpace(ctrl2),
                                              ToContourSpace(to))
    /\ UNCHANGED <<outsideExtract, pc, contours, start_pos, in_subpath, subpaths_read,
                   scale_factor, center_x, center_y>>

\* PathEvent::End { close }
EventEnd ==
    /\ pc = "extract"
    /\ in_subpath
    /\ \E close \in BOOLEAN :
          contours' =
              IF Len(current_vertices) >= MinContourVertices
              THEN Append(contours,
                          Contour(FinishSubpath(current_vertices, start_pos, close), close))
              ELSE contours
    /\ current_vertices' = <<>>
    /\ in_subpath' = FALSE
    /\ subpaths_read' = subpaths_read + 1
    /\ UNCHANGED <<outsideExtract, pc, start_pos, scale_factor, center_x, center_y>>

\* the path is read: the vertices left over become an open contour
ExtractReturn ==
    /\ pc = "extract"
    /\ ~in_subpath
    /\ contours' =
          IF Len(current_vertices) >= MinContourVertices
          THEN Append(contours, Contour(deduplicate_vertices(current_vertices), FALSE))
          ELSE contours
    /\ pc' = "extract_done"
    /\ UNCHANGED <<outsideExtract, current_vertices, start_pos, in_subpath, subpaths_read,
                   scale_factor, center_x, center_y>>

NextExtract ==
    \/ EventBegin
    \/ EventLine
    \/ EventQuadratic
    \/ EventCubic
    \/ EventEnd
    \/ ExtractReturn

SpecExtract ==
    /\ InitExtract
    /\ [][NextExtract]_vars

\* C9: every contour extract_contours returns has at least 3 vertices.
C9_ContoursHaveThreeVertices ==
    \A k \in 1..Len(contours) : Len(contours[k].vertices) >= 3

-----------------------------------------------------------------------------
(* Properties of compute_bevel_rings *)

\* every offset of the polyline's bevel_segments steps was requested and came back non-empty
AllStepsNonEmpty(requests) ==
    /\ Len(requests) = bevel_segments
    /\ \A k \in 1..Len(requests) : requests[k].loops > 0

\* C1: every BevelRings has rings.len() + 2 <= bevel_segments + 1, whatever
\* the offsets return, with equality when all bevel_segments offsets are
\* non-empty.
C1_RingCount ==
    \A i \in 1..Len(all_bevel_rings) :
        /\ Len(all_bevel_rings[i].rings) + 2 <= bevel_segments + 1
        /\ AllStepsNonEmpty(offset_requests[i]) =>
               Len(all_bevel_rings[i].rings) + 2 = bevel_segments + 1

\* the indices, in input order, of the contours among the first k that keep
\* at least 3 vertices after cleanup
RECURSIVE Surviving(_)
Surviving(k) ==
    IF k = 0 THEN <<>>
    ELSE IF Len(cleanup_vertices_for_offset(contours[k].vertices)) >= 3
         THEN Append(Surviving(k - 1), k)
         ELSE Surviving(k - 1)

\* C2: compute_bevel_rings never returns an error; it returns one BevelRings
\* for each contour that keeps at least 3 vertices after cleanup, in input
\* order (its outer contour is that contour cleaned up), and none for the
\* others.
C2_OneEntryPerSurvivingContour ==
    /\ rings_result.kind \in {"None", "Ok"}
    /\ pc = "rings_done" =>
          LET kept == Surviving(Len(contours))
          IN  /\ rings_result.kind = "Ok"
              /\ Len(rings_result.value) = Len(kept)
              /\ \A k \in 1..Len(kept) :
                    rings_result.value[k].outer_contour =
                        Contour(cleanup_vertices_for_offset(contours[kept[k]].vertices),
                                contours[kept[k]].is_closed)

\* C2 witness: two contours went in, one of them was skipped, and one
\* BevelRings came out.
C2_Witness ==
    /\ pc = "rings_done"
    /\ Len(contours) = 2
    /\ Len(Surviving(2)) = 1
    /\ Len(rings_result.value) = 1

\* all vertices of the contour lie within the vertex tolerance of each other
WithinTolerance(contour) ==
    \A a \in 1..Len(contour.vertices), b \in 1..Len(contour.vertices) :
        Near(contour.vertices[a], contour.vertices[b])

\* C10: a contour whose vertices all lie within the tolerance of each other
\* is rejected with InvalidContour, never becomes a polyline and gets no
\* BevelRings; every polyline handed to the offset operation and every
\* outer_contour has at least 3 vertices.
C10_DegenerateNeverOffset ==
    /\ \A i \in 1..Len(contours) :
          WithinTolerance(contours[i]) =>
              /\ contour_to_polyline(contours[i]).kind = "Err"
              /\ contour_to_polyline(contours[i]).err = "InvalidContour"
              /\ \A k \in 1..Len(source_of) : source_of[k] # i
              /\ pc = "rings_done" => rings_result.value = <<>>
    /\ \A k \in 1..Len(polylines) : Len(polylines[k].vertex_data) >= 3
    /\ bevel_rings # <<>> => Len(bevel_rings[1].vertices) >= 3
    /\ \A k \in 1..Len(all_bevel_rings) :
          Len(all_bevel_rings[k].outer_contour.vertices) >= 3

\* C10 witness: a contour of 3 or more distinct vertices, all within the
\* tolerance of each other, went through and nothing came out.
C10_Witness ==
    /\ pc = "rings_done"
    /\ Len(contours) = 1
    /\ WithinTolerance(contours[1])
    /\ Cardinality({contours[1].vertices[k] : k \in 1..Len(contours[1].vertices)}) >= 2
    /\ Len(contours[1].vertices) >= 3
    /\ rings_result = Ok(<<>>)

-----------------------------------------------------------------------------
(* tess.rs: tessellate_front_cap and try_tessellation_with_fallbacks *)

\* Tolerances are counted in hundredths of a font unit.
FirstTolerance == 25
HigherTolerance == 50

\* lyon's FillOptions::default()
FillOptionsDefault == [tolerance |-> 10, fill_rule |-> "EvenOdd"]

\* the flattened outlines handed to the tessellator, in font units
SamplePaths ==
    { << <<0, 0>>, <<8, 0>>, <<0, 8>> >>,
      << <<0, 0>>, <<8, 0>>, <<8, 8>>, <<0, 8>> >>,
      << <<0, 0>>, <<8, 8>>, <<8, 0>>, <<0, 8>> >> }

SampleBoxes ==
    { [x_min |-> 0, y_min |-> 0, x_max |-> 8, y_max |-> 8],
      [x_min |-> -2, y_min |-> 0, x_max |-> 8, y_max |-> 4] }

\* font_size / units_per_em
TessScaleFactor == font_size \div units_per_em

\* (x_min + x_max) / 2.0 and (y_min + y_max) / 2.0
TessCenterX == (bounding_box.x_min + bounding_box.x_max) \div 2
TessCenterY == (bounding_box.y_min + bounding_box.y_max) \div 2

\* the vertex constructor of the BuffersBuilder
FrontCapVertex(position) ==
    << (position[1] - TessCenterX) * TessScaleFactor,
       (position[2] - TessCenterY) * TessScaleFactor,
       0 >>

\* a fan over n positions, three indices per triangle
RECURSIVE FanIndices(_)
FanIndices(n) ==
    IF n < 3 THEN <<>> ELSE FanIndices(n - 1) \o <<0, n - 2, n - 1>>

\* What one run of FillTessellator::tessellate_path emits: the tessellator is
\* an external library, so whether it succeeds and how much it has emitted when
\* it stops are open.  It emits the first n points of the path and a fan.
TessellatorOutput(n) ==
    [positions |-> SubSeq(path, 1, n), indices |-> FanIndices(n)]

\* BuffersBuilder::new(geometry, ctor): appends to the buffers, indices
\* shifted by the number of vertices already there
WriteBuffers(buffers, output) ==
    [vertices |-> buffers.vertices \o [i \in 1..Len(output.positions) |->
                                          FrontCapVertex(output.positions[i])],
     indices |-> buffers.indices \o [i \in 1..Len(output.indices) |->
                                        output.indices[i] + Len(buffers.vertices)]]

KeepBuffers(buffers) == buffers

\* geometry.vertices.clear(); geometry.indices.clear();
ClearBuffers(buffers) == [vertices |-> <<>>, indices |-> <<>>]

Attempt(opts, ok, output) ==
    [tolerance |-> opts.tolerance, fill_rule |-> opts.fill_rule, ok |-> ok,
     positions |-> output.positions, indices |-> output.indices]

TessellatedGeometry ==
    [vertices |-> geometry.vertices, indices |-> geometry.indices,
     scale_factor |-> TessScaleFactor, center_x |-> TessCenterX, center_y |-> TessCenterY]

InitTess ==
    /\ IdleRings /\ IdleExtract /\ IdleMesh /\ IdleCheck /\ IdleGlyphSide
    /\ contours = <<>>
    /\ pc = "tess_first"
    /\ path \in SamplePaths
    /\ bounding_box \in SampleBoxes
    /\ font_size \in {2, 4}
    /\ units_per_em \in {1, 2}
    /\ options = FillOptionsDefault
    /\ geometry = [vertices |-> <<>>, indices |-> <<>>]
    /\ attempts = <<>>
    /\ tess_result = NoResult

\* first attempt: tolerance 0.25
FirstAttempt ==
    /\ pc = "tess_first"
    /\ \E ok \in BOOLEAN, n \in 0..Len(path) :
          LET opts == [FillOptionsDefault EXCEPT !.tolerance = FirstTolerance]
          IN  /\ options' = opts
              /\ geometry' = WriteBuffers(geometry, TessellatorOutput(n))
              /\ attempts' = Append(attempts, Attempt(opts, ok, TessellatorOutput(n)))
              /\ pc' = IF ok THEN "tess_return" ELSE "tess_second"
    /\ UNCHANGED <<outsideTess, path, bounding_box, font_size, units_per_em, tess_result>>

\* second attempt: buffers cleared, tolerance 0.5
SecondAttempt ==
    /\ pc = "tess_second"
    /\ \E ok \in BOOLEAN, n \in 0..Len(path) :
          LET opts == [options EXCEPT !.tolerance = HigherTolerance]
          IN  /\ options' = opts
              /\ geometry' = WriteBuffers(ClearBuffers(geometry), TessellatorOutput(n))
              /\ attempts' = Append(attempts, Attempt(opts, ok, TessellatorOutput(n)))
              /\ pc' = IF ok THEN "tess_return" ELSE "tess_third"
    /\ UNCHANGED <<outsideTess, path, bounding_box, font_size, units_per_em, tess_result>>

\* third attempt: buffers cleared, fill rule NonZero
ThirdAttempt ==
    /\ pc = "tess_third"
    /\ \E ok \in BOOLEAN, n \in 0..Len(path) :
          LET opts == [options EXCEPT !.fill_rule = "NonZero"]
          IN  /\ options' = opts
              /\ geometry' = WriteBuffers(ClearBuffers(geometry), TessellatorOutput(n))
              /\ attempts' = Append(attempts, Attempt(opts, ok, TessellatorOutput(n)))
              /\ pc' = "tess_return"
    /\ UNCHANGED <<outsideTess, path, bounding_box, font_size, units_per_em, tess_result>>

\* tessellate_front_cap returns
TessReturn ==
    /\ pc = "tess_return"
    /\ tess_result' = IF attempts[Len(attempts)].ok
                      THEN Ok(TessellatedGeometry)
                      ELSE Err("TessellationFailed")
    /\ pc' = "tess_done"
    /\ UNCHANGED <<outsideTess, path, bounding_box, font_size, units_per_em, options,
                   geometry, attempts>>

NextTess ==
    \/ FirstAttempt
    \/ SecondAttempt
    \/ ThirdAttempt
    \/ TessReturn

SpecTess ==
    /\ InitTess
    /\ [][NextTess]_vars

\* the strategies as stated: tolerance 0.25 with even-odd, 0.5 with even-odd,
\* 0.25 with non-zero
StatedStrategies ==
    << [tolerance |-> 25, fill_rule |-> "EvenOdd"],
       [tolerance |-> 50, fill_rule |-> "EvenOdd"],
       [tolerance |-> 25, fill_rule |-> "NonZero"] >>

\* C7: the k-th tessellation attempt runs with the k-th stated strategy, and
\* only after the attempt before it failed.
C7_StrategyOrder ==
    \A k \in 1..Len(attempts) :
        /\ attempts[k].tolerance = StatedStrategies[k].tolerance
        /\ attempts[k].fill_rule = StatedStrategies[k].fill_rule
        /\ k > 1 => ~attempts[k - 1].ok

\* C8: TessellationFailed is returned exactly when three attempts were made
\* and all failed; no attempt follows a successful one; and the vertices and
\* indices returned are those the successful attempt emitted, nothing else.
C8_ResultOfSuccessfulAttempt ==
    /\ \A k \in 1..(Len(attempts) - 1) : ~attempts[k].ok
    /\ Len(attempts) <= 3
    /\ pc = "tess_done" =>
          LET last == attempts[Len(attempts)]
          IN  /\ tess_result.kind = "Err" <=>
                    (Len(attempts) = 3 /\ \A k \in 1..3 : ~attempts[k].ok)
              /\ tess_result.kind = "Err" => tess_result.value = "TessellationFailed"
              /\ tess_result.kind = "Ok" =>
                    /\ last.ok
                    /\ tess_result.value.vertices =
                          [i \in 1..Len(last.positions) |-> FrontCapVertex(last.positions[i])]
                    /\ tess_result.value.indices = last.indices

\* a success on the third attempt after two failed attempts that had emitted
\* part of their output
C8_Witness ==
    /\ pc = "tess_done"
    /\ tess_result.kind = "Ok"
    /\ Len(attempts) = 3
    /\ attempts[1].positions # <<>>
    /\ attempts[2].indices # <<>>
    /\ attempts[3].indices # <<>>

-----------------------------------------------------------------------------
(* mesh.rs: check_mesh *)

\* An f32 component is a number of the grid, NaN or an infinity.
Num(v) == [k |-> "num", v |-> v]
NaN == [k |-> "nan", v |-> 0]
Infinity == [k |-> "inf", v |-> 0]

Vec3(x, y, z) == <<Num(x), Num(y), Num(z)>>

\* f32::is_finite
is_finite(c) == c.k = "num"

\* c.abs() > bound: true of an infinity, false of NaN
AbsExceeds(c, bound) == c.k = "inf" \/ (c.k = "num" /\ Abs(c.v) > bound)

MAX_REASONABLE_COORD == 1000

\* vertex.x.abs() > MAX_REASONABLE_COORD || ... y ... || ... z ...
IsExtreme(vertex) == \E a \in 1..3 : AbsExceeds(vertex[a], MAX_REASONABLE_COORD)

\* !x.is_finite() || !y.is_finite() || !z.is_finite()
NotFinite(vector) == \E a \in 1..3 : ~is_finite(vector[a])

\* (b - a).cross(c - a).length() < DEGENERATE_TRIANGLE_THRESHOLD, for finite
\* vertices: on the grid the length of the cross product is 0 or at least 1
IsDegenerate(a, b, c) ==
    LET ux == b[1].v - a[1].v
        uy == b[2].v - a[2].v
        uz == b[3].v - a[3].v
        wx == c[1].v - a[1].v
        wy == c[2].v - a[2].v
        wz == c[3].v - a[3].v
    IN  /\ uy * wz - uz * wy = 0
        /\ uz * wx - ux * wz = 0
        /\ ux * wy - uy * wx = 0

\* (normal.length() - 1.0).abs() > NORMAL_LENGTH_TOLERANCE: the length is NaN
\* when a component is, else infinite when a component is; a grid vector has
\* length 0, 1, or at least the square root of 2
LengthDeviates(normal) ==
    IF \E a \in 1..3 : normal[a].k = "nan" THEN FALSE
    ELSE IF \E a \in 1..3 : normal[a].k = "inf" THEN TRUE
    ELSE normal[1].v * normal[1].v + normal[2].v * normal[2].v + normal[3].v * normal[3].v # 1

InvalidMesh(reason) == Err([error |-> "InvalidMesh", reason |-> reason])
Panicked(message) == [kind |-> "Panic", value |-> message]

\* for vertex in &geometry.vertices: counts extreme vertices, stops at the
\* first vertex that is not finite
RECURSIVE VertexLoop(_, _, _)
VertexLoop(vertices, i, extreme_vertices) ==
    IF i > Len(vertices) THEN [count |-> extreme_vertices, finite |-> TRUE]
    ELSE LET counted == extreme_vertices + (IF IsExtreme(vertices[i]) THEN 1 ELSE 0)
         IN  IF NotFinite(vertices[i])
             THEN [count |-> counted, finite |-> FALSE]
             ELSE VertexLoop(vertices, i + 1, counted)

\* for i in (0..indices.len()).step_by(3): counts degenerate triangles;
\* geometry.vertices[index] panics on an index that is out of bounds
RECURSIVE TriangleLoop(_, _, _)
TriangleLoop(g, i, degenerate_triangles) ==
    IF i >= Len(g.indices) THEN [count |-> degenerate_triangles, panicked |-> FALSE]
    ELSE IF ~(i + 2 < Len(g.indices)) THEN TriangleLoop(g, i + 3, degenerate_triangles)
    ELSE IF \E k \in 1..3 : g.indices[i + k] >= Len(g.vertices)
         THEN [count |-> degenerate_triangles, panicked |-> TRUE]
         ELSE LET a == g.vertices[g.indices[i + 1] + 1]
                  b == g.vertices[g.indices[i + 2] + 1]
                  c == g.vertices[g.indices[i + 3] + 1]
              IN  TriangleLoop(g, i + 3,
                      degenerate_triangles + (IF IsDegenerate(a, b, c) THEN 1 ELSE 0))

\* for normal in &geometry.normals: counts normals that are not unit vectors,
\* stops at the first normal that is not finite
RECURSIVE NormalLoop(_, _, _)
NormalLoop(normals, i, invalid_normals) ==
    IF i > Len(normals) THEN [count |-> invalid_normals, finite |-> TRUE]
    ELSE LET counted == invalid_normals + (IF LengthDeviates(normals[i]) THEN 1 ELSE 0)
         IN  IF NotFinite(normals[i])
             THEN [count |-> counted, finite |-> FALSE]
             ELSE NormalLoop(normals, i + 1, counted)

TooManyInclusive(count, total, divisor) == count >= total \div divisor

\* count > total / divisor, in usize arithmetic
TooMany(count, total, divisor) == count > total \div divisor

\* The geometries handed to check_mesh.  A geometry is built from counts:
\* vertex i lies on a parabola, so that three distinct vertices span a
\* triangle; the first vertices are extreme, the first normals are not unit
\* vectors, the first triangles are degenerate.
MaxCheckVerts == 21   \* vertices of a geometry
MaxCheckTris == 11    \* triangles of a geometry
MaxSmallVerts == 3    \* vertices of a geometry with faults
MaxSmallTris == 2     \* triangles of a geometry with faults

SampleVertex(i, extreme) ==
    IF extreme THEN Vec3(2 * MAX_REASONABLE_COORD + i, i * i, 0) ELSE Vec3(i, i * i, 0)

SampleTriangle(j, nv, degenerate) ==
    IF degenerate \/ nv = 0 THEN <<0, 0, 0>> ELSE <<j % nv, (j + 1) % nv, (j + 2) % nv>>

RECURSIVE SampleIndices(_, _, _)
SampleIndices(nt, nv, nd) ==
    IF nt = 0 THEN <<>>
    ELSE SampleIndices(nt - 1, nv, nd) \o SampleTriangle(nt - 1, nv, nt <= nd)

SampleGeometry(nv, ne, ni, nt, nd) ==
    [vertices |-> [i \in 1..nv |-> SampleVertex(i - 1, i <= ne)],
     indices |-> SampleIndices(nt, nv, nd),
     normals |-> [i \in 1..nv |-> IF i <= ni THEN Vec3(0, 0, 2) ELSE Vec3(0, 0, 1)],
     uvs |-> [i \in 1..nv |-> <<0, 0>>]]

Faults == {"none", "extra_index", "extra_normal", "extra_uv", "nan_vertex", "inf_vertex",
           "nan_normal", "inf_normal", "index_out_of_bounds"}

WithFault(g, fault) ==
    LET nv == Len(g.vertices)
        nn == Len(g.normals)
    IN  CASE fault = "extra_index" -> [g EXCEPT !.indices = Append(@, 0)]
          [] fault = "extra_normal" -> [g EXCEPT !.normals = Append(@, Vec3(0, 0, 1))]
          [] fault = "extra_uv" -> [g EXCEPT !.uvs = Append(@, <<0, 0>>)]
          [] fault = "nan_vertex" /\ nv > 0 -> [g EXCEPT !.vertices[nv][1] = NaN]
          [] fault = "inf_vertex" /\ nv > 0 -> [g EXCEPT !.vertices[1][3] = Infinity]
          [] fault = "nan_normal" /\ nn > 0 -> [g EXCEPT !.normals[nn][2] = NaN]
          [] fault = "inf_normal" /\ nn > 0 -> [g EXCEPT !.normals[1][1] = Infinity]
          [] fault = "index_out_of_bounds" -> [g EXCEPT !.indices = @ \o <<0, 0, nv>>]
          [] OTHER -> g

SoundGeometries ==
    { SampleGeometry(nv, ne, ni, nt, nd) :
        nv \in 1..MaxCheckVerts, ne \in 0..2, ni \in 0..3, nt \in 0..MaxCheckTris, nd \in 0..2 }

FaultyGeometries ==
    { WithFault(WithFault(SampleGeometry(nv, 0, 0, nt, 0), first), second) :
        nv \in 0..MaxSmallVerts, nt \in 0..MaxSmallTris, first \in Faults, second \in Faults }

InitCheck ==
    /\ IdleRings /\ IdleExtract /\ IdleTess /\ IdleMesh /\ IdleGlyphSide
    /\ contours = <<>>
    /\ pc = "check_entry"
    /\ mesh_geometry \in SoundGeometries \cup FaultyGeometries
    /\ validation = NoValidation
    /\ check_result = NoResult

\* the counts are taken, then the index count and the array lengths are tested
CheckLengths ==
    /\ pc = "check_entry"
    /\ validation' = [NoValidation EXCEPT !.vertex_count = Len(mesh_geometry.vertices),
                                          !.triangle_count = Len(mesh_geometry.indices) \div 3]
    /\ IF Len(mesh_geometry.indices) % 3 # 0
       THEN /\ check_result' = InvalidMesh("Index count not divisible by 3")
            /\ pc' = "check_done"
       ELSE IF \/ Len(mesh_geometry.vertices) # Len(mesh_geometry.normals)
               \/ Len(mesh_geometry.vertices) # Len(mesh_geometry.uvs)
       THEN /\ check_result' = InvalidMesh("Vertex attribute arrays have different lengths")
            /\ pc' = "check_done"
       ELSE /\ check_result' = check_result
            /\ pc' = "check_vertices"
    /\ UNCHANGED <<outsideCheck, mesh_geometry>>

\* the loop over the vertices
CheckVertices ==
    /\ pc = "check_vertices"
    /\ LET loop == VertexLoop(mesh_geometry.vertices, 1, 0)
       IN  /\ validation' = [validation EXCEPT !.extreme_vertices = loop.count]
           /\ IF loop.finite
              THEN /\ check_result' = check_result
                   /\ pc' = "check_triangles"
              ELSE /\ check_result' = InvalidMesh("Vertex contains NaN or infinite values")
                   /\ pc' = "check_done"
    /\ UNCHANGED <<outsideCheck, mesh_geometry>>

\* the loop over the triangles
CountDegenerate ==
    /\ pc = "check_triangles"
    /\ LET loop == TriangleLoop(mesh_geometry, 0, 0)
       IN  /\ validation' = [validation EXCEPT !.degenerate_triangles = loop.count]
           /\ IF loop.panicked
              THEN /\ check_result' = Panicked("index out of bounds")
                   /\ pc' = "check_done"
              ELSE /\ check_result' = check_result
                   /\ pc' = "check_normals"
    /\ UNCHANGED <<outsideCheck, mesh_geometry>>

\* the loop over the normals
CheckNormals ==
    /\ pc = "check_normals"
    /\ LET loop == NormalLoop(mesh_geometry.normals, 1, 0)
       IN  /\ validation' = [validation EXCEPT !.invalid_normals = loop.count]
           /\ IF loop.finite
              THEN /\ check_result' = check_result
                   /\ pc' = "check_thresholds"
              ELSE /\ check_result' = InvalidMesh("Normal contains NaN or infinite values")
                   /\ pc' = "check_done"
    /\ UNCHANGED <<outsideCheck, mesh_geometry>>

\* the three ratio tests, then Ok(validation)
CheckThresholds ==
    /\ pc = "check_thresholds"
    /\ check_result' =
          IF TooMany(validation.degenerate_triangles, validation.triangle_count, 10)
          THEN InvalidMesh("Too many degenerate triangles")
          ELSE IF TooMany(validation.invalid_normals, validation.vertex_count, 10)
          THEN InvalidMesh("Too many invalid normals")
          ELSE IF TooMany(validation.extreme_vertices, validation.vertex_count, 20)
          THEN InvalidMesh("Too many extreme vertex coordinates")
          ELSE Ok(validation)
    /\ pc' = "check_done"
    /\ UNCHANGED <<outsideCheck, mesh_geometry, validation>>

NextCheck ==
    \/ CheckLengths
    \/ CheckVertices
    \/ CountDegenerate
    \/ CheckNormals
    \/ CheckThresholds

SpecCheck ==
    /\ InitCheck
    /\ [][NextCheck]_vars

\* the hard failures of a geometry
HardFailure(g) ==
    \/ Len(g.indices) % 3 # 0
    \/ Len(g.vertices) # Len(g.normals)
    \/ Len(g.vertices) # Len(g.uvs)
    \/ \E i \in 1..Len(g.vertices) : NotFinite(g.vertices[i])
    \/ \E i \in 1..Len(g.normals) : NotFinite(g.normals[i])

IndicesInRange(g) ==
    \A k \in 1..Len(g.indices) : g.indices[k] < Len(g.vertices)

\* C3: check_mesh returns InvalidMesh for every geometry with a hard failure,
\* whatever else the geometry holds.
C3_HardFailuresRejected ==
    (pc = "check_done" /\ HardFailure(mesh_geometry)) =>
        /\ check_result.kind = "Err"
        /\ check_result.value.error = "InvalidMesh"

\* the counts of a geometry, taken over the whole geometry
TriangleAt(g, j) ==
    <<g.vertices[g.indices[3 * j + 1] + 1], g.vertices[g.indices[3 * j + 2] + 1],
      g.vertices[g.indices[3 * j + 3] + 1]>>

DegenerateCount(g) ==
    Cardinality({j \in 0..(Len(g.indices) \div 3 - 1) :
                    IsDegenerate(TriangleAt(g, j)[1], TriangleAt(g, j)[2], TriangleAt(g, j)[3])})

InvalidNormalCount(g) == Cardinality({i \in 1..Len(g.normals) : LengthDeviates(g.normals[i])})

ExtremeCount(g) == Cardinality({i \in 1..Len(g.vertices) : IsExtreme(g.vertices[i])})

\* C4: a geometry without hard failure whose indices are in range is rejected
\* with InvalidMesh exactly when 10 * degenerate > triangles, or
\* 10 * invalid normals > vertices, or 20 * extreme > vertices; otherwise
\* check_mesh returns Ok with the exact counts.
C4_SoftThresholds ==
    (pc = "check_done" /\ ~HardFailure(mesh_geometry) /\ IndicesInRange(mesh_geometry)) =>
        LET g == mesh_geometry
            t == Len(g.indices) \div 3
            v == Len(g.vertices)
            over == \/ 10 * DegenerateCount(g) > t
                    \/ 10 * InvalidNormalCount(g) > v
                    \/ 20 * ExtremeCount(g) > v
        IN  /\ check_result.kind \in {"Ok", "Err"}
            /\ check_result.kind = "Err" <=> over
            /\ check_result.kind = "Err" => check_result.value.error = "InvalidMesh"
            /\ check_result.kind = "Ok" =>
                  check_result.value =
                      [vertex_count |-> v, triangle_count |-> t,
                       degenerate_triangles |-> DegenerateCount(g),
                       invalid_normals |-> InvalidNormalCount(g),
                       extreme_vertices |-> ExtremeCount(g)]

\* a mesh exactly at the three thresholds is accepted
C4_Witness ==
    /\ pc = "check_done"
    /\ ~HardFailure(mesh_geometry)
    /\ IndicesInRange(mesh_geometry)
    /\ check_result.kind = "Ok"
    /\ check_result.value.triangle_count = 10
    /\ check_result.value.degenerate_triangles = 1
    /\ check_result.value.vertex_count = 20
    /\ check_result.value.invalid_normals = 2
    /\ check_result.value.extreme_vertices = 1

-----------------------------------------------------------------------------
(* mesh.rs: resample_contour and build_beveled_mesh *)

\* Vec2::distance on the grid: the integer part of the square root
Distance(a, b) ==
    LET d2 == Dist2(a, b)
    IN  CHOOSE r \in 0..d2 : r * r <= d2 /\ (r + 1) * (r + 1) > d2

RECURSIVE SumUpTo(_, _)
SumUpTo(lengths, j) == IF j = 0 THEN 0 ELSE SumUpTo(lengths, j - 1) + lengths[j]

\* segment_lengths: one per edge, the closing edge only for a closed contour
SegmentLengths(contour) ==
    LET n == Len(contour.vertices)
    IN  [i \in 1..(IF contour.is_closed THEN n ELSE n - 1) |->
            Distance(contour.vertices[i], contour.vertices[IF i = n THEN 1 ELSE i + 1])]

\* the k-th resampled vertex (k from 0): the point at distance
\* k * total_length / target_count along the perimeter, rounded to the grid
ResampledVertex(contour, segment_lengths, total_length, target_count, k) ==
    LET n == Len(contour.vertices)
        containing == { j \in 1..Len(segment_lengths) :
                          k * total_length <= SumUpTo(segment_lengths, j) * target_count }
    IN  IF containing = {} THEN contour.vertices[n]
        ELSE LET seg_idx == CHOOSE j \in containing : \A q \in containing : j <= q
                 segment_start == contour.vertices[seg_idx]
                 segment_end == contour.vertices[IF contour.is_closed
                                                 THEN (seg_idx % n) + 1
                                                 ELSE Min(seg_idx + 1, n)]
                 num == k * total_length - SumUpTo(segment_lengths, seg_idx - 1) * target_count
                 den == segment_lengths[seg_idx] * target_count
             IN  IF segment_lengths[seg_idx] > 0
                 THEN << RoundDiv(segment_start[1] * den
                                  + num * (segment_end[1] - segment_start[1]), den),
                         RoundDiv(segment_start[2] * den
                                  + num * (segment_end[2] - segment_start[2]), den) >>
                 ELSE segment_start

resample_contour(contour, target_count) ==
    IF Len(contour.vertices) = target_count \/ Len(contour.vertices) < 3 THEN contour
    ELSE LET segment_lengths == SegmentLengths(contour)
             total_length == SumUpTo(segment_lengths, Len(segment_lengths))
         IN  IF total_length = 0
             THEN Contour([k \in 1..target_count |-> contour.vertices[1]], contour.is_closed)
             ELSE Contour([k \in 1..target_count |->
                              ResampledVertex(contour, segment_lengths, total_length,
                                              target_count, k - 1)],
                          contour.is_closed)

RECURSIVE MaxVertexCount(_, _)
MaxVertexCount(rings, i) ==
    IF i > Len(rings) THEN 0
    ELSE Max(Len(rings[i].vertices), MaxVertexCount(rings, i + 1))

determine_optimal_vertex_count(rings) ==
    IF rings = <<>> THEN 4 ELSE Min(Max(MaxVertexCount(rings, 1), 4), 256)

\* outer -> intermediates -> inner -> outer again, for the back
BridgeSet(bevel_ring) ==
    <<bevel_ring.outer_contour>> \o bevel_ring.rings
        \o <<bevel_ring.inner_contour, bevel_ring.outer_contour>>

ResampledRings(bevel_ring) ==
    LET target_vertex_count == determine_optimal_vertex_count(BridgeSet(bevel_ring))
    IN  [r \in 1..Len(BridgeSet(bevel_ring)) |->
            resample_contour(BridgeSet(bevel_ring)[r], target_vertex_count)]

\* an interpolation that counts the copy of the outer contour as a bevel ring
BevelZOverAllRings(ring_idx, ring_count, depth) ==
    IF ring_count <= 1 THEN 0 ELSE (ring_idx * depth) \div (ring_count - 1)

\* the z of ring ring_idx (from 0) of ring_count rings, the last of which is
\* the outer contour at full depth
BevelZ(ring_idx, ring_count, depth) ==
    IF ring_count <= 1 THEN 0
    ELSE IF ring_idx = ring_count - 1 THEN depth
    ELSE (ring_idx * depth) \div (ring_count - 2)

\* the vertices of the rings, ring r at z zs[r]
RECURSIVE RingVertices(_, _, _)
RingVertices(rings, zs, r) ==
    IF r > Len(rings) THEN <<>>
    ELSE [i \in 1..Len(rings[r].vertices) |->
             <<rings[r].vertices[i][1], rings[r].vertices[i][2], zs[r]>>]
         \o RingVertices(rings, zs, r + 1)

\* ring_offsets[r], counted from the first vertex of the first ring
RECURSIVE RingOffset(_, _)
RingOffset(rings, r) ==
    IF r <= 1 THEN 0 ELSE RingOffset(rings, r - 1) + Len(rings[r - 1].vertices)

\* the two triangles per edge between a ring and the next
RECURSIVE BridgeIndices(_, _, _, _, _)
BridgeIndices(current_offset, next_offset, vertex_count, is_closed, i) ==
    IF i >= vertex_count THEN <<>>
    ELSE IF ~is_closed /\ i = vertex_count - 1 THEN <<>>
    ELSE LET next_i == IF is_closed THEN (i + 1) % vertex_count ELSE i + 1
             v0 == current_offset + i
             v1 == current_offset + next_i
             v2 == next_offset + next_i
             v3 == next_offset + i
         IN  <<v0, v1, v2, v0, v2, v3>>
             \o BridgeIndices(current_offset, next_offset, vertex_count, is_closed, i + 1)

RECURSIVE add_back_cap_triangulation(_, _, _)
add_back_cap_triangulation(offset, vertex_count, i) ==
    IF vertex_count < 3 \/ i >= vertex_count - 1 THEN <<>>
    ELSE <<offset, offset + i + 1, offset + i>>
         \o add_back_cap_triangulation(offset, vertex_count, i + 1)

\* the bridges between every ring and the next; a pair of rings with different
\* vertex counts gets none
RECURSIVE BridgeAll(_, _, _)
BridgeAll(rings, base, r) ==
    IF r >= Len(rings) THEN <<>>
    ELSE (IF Len(rings[r].vertices) = Len(rings[r + 1].vertices)
          THEN BridgeIndices(base + RingOffset(rings, r), base + RingOffset(rings, r + 1),
                             Len(rings[r].vertices), rings[r].is_closed, 0)
          ELSE <<>>)
         \o BridgeAll(rings, base, r + 1)

\* assert_eq!(current_ring.vertices.len(), next_ring.vertices.len())
AssertEqualCounts(rings) ==
    \A r \in 1..(Len(rings) - 1) : Len(rings[r].vertices) = Len(rings[r + 1].vertices)

build_improved_bevel_ring_geometry(vertices, indices, bevel_ring, depth) ==
    LET resampled_rings == ResampledRings(bevel_ring)
        ring_count == Len(resampled_rings)
        target_vertex_count == determine_optimal_vertex_count(BridgeSet(bevel_ring))
        zs == [r \in 1..ring_count |-> BevelZ(r - 1, ring_count, depth)]
        base == Len(vertices)
    IN  [panicked |-> ~AssertEqualCounts(resampled_rings),
         vertices |-> vertices \o RingVertices(resampled_rings, zs, 1),
         indices |-> indices \o BridgeAll(resampled_rings, base, 1)
                        \o add_back_cap_triangulation(
                               base + RingOffset(resampled_rings, ring_count),
                               target_vertex_count, 1)]

Sub3(a, b) == <<a[1] - b[1], a[2] - b[2], a[3] - b[3]>>
Add3(a, b) == <<a[1] + b[1], a[2] + b[2], a[3] + b[3]>>
Cross(u, w) == <<u[2] * w[3] - u[3] * w[2], u[3] * w[1] - u[1] * w[3], u[1] * w[2] - u[2] * w[1]>>

\* normals[i] after the accumulation loop: the face normal of every triangle
\* from triangle j (from 0) onwards whose three indices are in range, once
\* per corner of the triangle that is vertex i (from 0)
RECURSIVE AccumulatedNormal(_, _, _, _)
AccumulatedNormal(vertices, indices, i, j) ==
    IF 3 * j + 3 > Len(indices) THEN <<0, 0, 0>>
    ELSE LET i0 == indices[3 * j + 1]
             i1 == indices[3 * j + 2]
             i2 == indices[3 * j + 3]
             corners == Cardinality({k \in 1..3 : indices[3 * j + k] = i})
             rest == AccumulatedNormal(vertices, indices, i, j + 1)
         IN  IF corners > 0 /\ i0 < Len(vertices) /\ i1 < Len(vertices) /\ i2 < Len(vertices)
             THEN LET face_normal == Cross(Sub3(vertices[i1 + 1], vertices[i0 + 1]),
                                           Sub3(vertices[i2 + 1], vertices[i0 + 1]))
                  IN  Add3(<<corners * face_normal[1], corners * face_normal[2],
                             corners * face_normal[3]>>, rest)
             ELSE rest

\* Vec3::normalize_or_zero: the direction is kept, the length becomes 1 or 0
normalize_or_zero(v) ==
    [direction |-> v, length |-> IF v = <<0, 0, 0>> THEN 0 ELSE 1]

generate_smooth_normals(vertices, indices) ==
    [i \in 1..Len(vertices) |->
        normalize_or_zero(AccumulatedNormal(vertices, indices, i - 1, 0))]

\* u = (x + 50) / 100, v = z / depth or (y + 50) / 100, in hundredths
generate_uvs_for_beveled_mesh(vertices, depth) ==
    [i \in 1..Len(vertices) |->
        << vertices[i][1] + 50,
           IF depth > 0 THEN (100 * vertices[i][3]) \div depth ELSE vertices[i][2] + 50 >>]

BeveledGlyphGeometry(vertices, indices, depth) ==
    [vertices |-> vertices, indices |-> indices,
     normals |-> generate_smooth_normals(vertices, indices),
     uvs |-> generate_uvs_for_beveled_mesh(vertices, depth)]

-----------------------------------------------------------------------------
(* mesh.rs: build_mesh_from_bevel_rings *)

TESSELLATION_TOLERANCE == 25
FALLBACK_TESSELLATION_TOLERANCE == 50

\* outer -> intermediates -> inner.  The boundary index lists the function
\* also returns are read by nothing and are left out.
build_bevel_ring_geometry_with_boundaries(vertices, indices, bevel_ring, depth) ==
    LET all_rings == <<bevel_ring.outer_contour>> \o bevel_ring.rings
                        \o <<bevel_ring.inner_contour>>
        zs == [r \in 1..Len(all_rings) |->
                  IF Len(all_rings) = 1 THEN 0
                  ELSE ((r - 1) * depth) \div (Len(all_rings) - 1)]
    IN  IF Len(all_rings) < 2 THEN Err("InvalidInput")
        ELSE Ok([vertices |-> vertices \o RingVertices(all_rings, zs, 1),
                 indices |-> indices \o BridgeAll(all_rings, Len(vertices), 1)])

\* the test on the winding turned round
IsClockwise(contour) ==
    Len(contour.vertices) >= 3 /\ calculate_signed_area(contour.vertices) < 0

IsOuterBoundary(contour) ==
    Len(contour.vertices) >= 3 /\ calculate_signed_area(contour.vertices) > 0

IsHole(contour) ==
    Len(contour.vertices) >= 3 /\ ~(calculate_signed_area(contour.vertices) > 0)

Reversed(vertices) == [i \in 1..Len(vertices) |-> vertices[Len(vertices) + 1 - i]]

\* the points add_contour_to_path_builder puts on the path, contour k onwards
RECURSIVE PathPointsOf(_, _, _)
PathPointsOf(cs, reverse_winding, k) ==
    IF k > Len(cs) THEN <<>>
    ELSE (IF reverse_winding THEN Reversed(cs[k].vertices) ELSE cs[k].vertices)
         \o PathPointsOf(cs, reverse_winding, k + 1)

\* The fill of the lyon tessellator is open: first_ok and second_ok say
\* whether the first run and the run with the fallback tolerance succeed.  A
\* run that succeeds emits the points of the path at z and a fan over them.
tessellate_contours_as_face_with_holes(cs, z, first_ok, second_ok) ==
    IF cs = <<>> THEN [kind |-> "Err", value |-> "InvalidInput", runs |-> <<>>]
    ELSE LET classified == SelectSeq(cs, IsOuterBoundary)
             outer_contours == IF classified = <<>> THEN cs ELSE classified
             hole_contours == IF classified = <<>> THEN <<>> ELSE SelectSeq(cs, IsHole)
             points == PathPointsOf(outer_contours, FALSE, 1)
                          \o PathPointsOf(hole_contours, TRUE, 1)
             first == [tolerance |-> TESSELLATION_TOLERANCE, ok |-> first_ok]
             second == [tolerance |-> FALLBACK_TESSELLATION_TOLERANCE, ok |-> second_ok]
         IN  IF \E k \in 1..Len(outer_contours) : Len(outer_contours[k].vertices) < 3
             THEN [kind |-> "Err", value |-> "InvalidContour", runs |-> <<>>]
             ELSE IF ~first_ok /\ ~second_ok
             THEN [kind |-> "Err", value |-> "TessellationFailed", runs |-> <<first, second>>]
             ELSE [kind |-> "Ok",
                   value |-> [vertices |-> [i \in 1..Len(points) |->
                                               <<points[i][1], points[i][2], z>>],
                              indices |-> FanIndices(Len(points))],
                   runs |-> IF first_ok THEN <<first>> ELSE <<first, second>>]

RECURSIVE CapIndices(_, _, _, _)
CapIndices(cap_indices, vertex_offset, reverse_winding, j) ==
    IF 3 * j + 3 > Len(cap_indices) THEN <<>>
    ELSE (IF reverse_winding
          THEN << vertex_offset + cap_indices[3 * j + 1], vertex_offset + cap_indices[3 * j + 3],
                  vertex_offset + cap_indices[3 * j + 2] >>
          ELSE << vertex_offset + cap_indices[3 * j + 1], vertex_offset + cap_indices[3 * j + 2],
                  vertex_offset + cap_indices[3 * j + 3] >>)
         \o CapIndices(cap_indices, vertex_offset, reverse_winding, j + 1)

tessellate_cap_interior_and_connect_to_boundary(buffers, cap_geometry, reverse_winding) ==
    [vertices |-> buffers.vertices \o cap_geometry.vertices,
     indices |-> buffers.indices
                    \o CapIndices(cap_geometry.indices, Len(buffers.vertices), reverse_winding, 0)]

-----------------------------------------------------------------------------
(* The two mesh builders as state machines *)

MaxMeshRings == 2     \* BevelRings handed to a mesh builder

Square == Contour(<< <<0, 0>>, <<8, 0>>, <<8, 8>>, <<0, 8>> >>, TRUE)
MidSquare == Contour(<< <<1, 1>>, <<7, 1>>, <<7, 7>>, <<1, 7>> >>, TRUE)
InnerSquare == Contour(<< <<2, 2>>, <<6, 2>>, <<6, 6>>, <<2, 6>> >>, TRUE)
HoleSquare == Contour(<< <<2, 2>>, <<2, 6>>, <<6, 6>>, <<6, 2>> >>, TRUE)
RightTriangle == Contour(<< <<0, 0>>, <<8, 0>>, <<8, 6>> >>, TRUE)
OpenPath == Contour(<< <<0, 0>>, <<8, 0>>, <<8, 6>> >>, FALSE)
TwoVertexLoop == Contour(<< <<3, 3>>, <<5, 3>> >>, TRUE)

BevelRings(outer_contour, rings, inner_contour) ==
    [outer_contour |-> outer_contour, inner_contour |-> inner_contour, rings |-> rings]

SampleBevelRings ==
    { BevelRings(Square, <<>>, InnerSquare),
      BevelRings(Square, <<MidSquare>>, InnerSquare),
      BevelRings(Square, <<>>, RightTriangle),
      BevelRings(OpenPath, <<>>, OpenPath),
      BevelRings(HoleSquare, <<>>, HoleSquare),
      BevelRings(Square, <<>>, TwoVertexLoop),
      BevelRings(TwoVertexLoop, <<>>, TwoVertexLoop) }

\* front caps whose index count is a multiple of 3 and whose indices are in range
SampleFrontCaps ==
    { [vertices |-> <<>>, indices |-> <<>>],
      [vertices |-> << <<0, 0, 0>>, <<8, 0, 0>>, <<0, 8, 0>> >>, indices |-> <<0, 1, 2>>] }

InitMesh ==
    /\ IdleRingsLocals /\ IdleExtract /\ IdleTess /\ IdleCheck /\ IdleGlyphSide
    /\ contours = <<>>
    /\ pc \in {"beveled_entry", "ringmesh_rings"}
    /\ all_bevel_rings \in SeqsUpTo(SampleBevelRings, MaxMeshRings)
    /\ front_cap \in (IF pc = "beveled_entry" THEN SampleFrontCaps
                      ELSE {[vertices |-> <<>>, indices |-> <<>>]})
    /\ extrusion_depth \in {0, 12}
    /\ next_ring = 1
    /\ mesh_vertices = <<>>
    /\ mesh_indices = <<>>
    /\ cap_attempts = <<>>
    /\ mesh_result = NoResult

\* build_beveled_mesh: the front cap vertices and indices are copied
BeveledFrontCap ==
    /\ pc = "beveled_entry"
    /\ mesh_vertices' = front_cap.vertices
    /\ mesh_indices' = front_cap.indices
    /\ pc' = "beveled_rings"
    /\ UNCHANGED <<outsideMesh, front_cap, extrusion_depth, next_ring, cap_attempts, mesh_result>>

\* build_beveled_mesh: build_improved_bevel_ring_geometry for the next BevelRings
BeveledRing ==
    /\ pc = "beveled_rings"
    /\ next_ring <= Len(all_bevel_rings)
    /\ LET built == build_improved_bevel_ring_geometry(
                        mesh_vertices, mesh_indices, all_bevel_rings[next_ring],
                        extrusion_depth)
       IN  IF built.panicked
           THEN /\ mesh_result' = Panicked("vertex count mismatch after resampling")
                /\ pc' = "beveled_done"
                /\ UNCHANGED <<mesh_vertices, mesh_indices>>
           ELSE /\ mesh_vertices' = built.vertices
                /\ mesh_indices' = built.indices
                /\ UNCHANGED <<mesh_result, pc>>
    /\ next_ring' = next_ring + 1
    /\ UNCHANGED <<outsideMesh, front_cap, extrusion_depth, cap_attempts>>

\* build_beveled_mesh: normals and UVs, then Ok
BeveledReturn ==
    /\ pc = "beveled_rings"
    /\ next_ring > Len(all_bevel_rings)
    /\ mesh_result' = Ok(BeveledGlyphGeometry(mesh_vertices, mesh_indices, extrusion_depth))
    /\ pc' = "beveled_done"
    /\ UNCHANGED <<outsideMesh, front_cap, extrusion_depth, next_ring, mesh_vertices,
                   mesh_indices, cap_attempts>>

\* build_mesh_from_bevel_rings: build_bevel_ring_geometry_with_boundaries for
\* the next BevelRings
RingMeshRing ==
    /\ pc = "ringmesh_rings"
    /\ next_ring <= Len(all_bevel_rings)
    /\ LET built == build_bevel_ring_geometry_with_boundaries(
                        mesh_vertices, mesh_indices, all_bevel_rings[next_ring],
                        extrusion_depth)
       IN  IF built.kind = "Err"
           THEN /\ mesh_result' = Err(built.value)
                /\ pc' = "ringmesh_done"
                /\ UNCHANGED <<mesh_vertices, mesh_indices>>
           ELSE /\ mesh_vertices' = built.value.vertices
                /\ mesh_indices' = built.value.indices
                /\ UNCHANGED <<mesh_result, pc>>
    /\ next_ring' = next_ring + 1
    /\ UNCHANGED <<outsideMesh, front_cap, extrusion_depth, cap_attempts>>

\* build_mesh_from_bevel_rings: tessellate_and_connect_caps, front then back
RingMeshCaps ==
    /\ pc = "ringmesh_rings"
    /\ next_ring > Len(all_bevel_rings)
    /\ \E front_first \in BOOLEAN, front_second \in BOOLEAN,
          back_first \in BOOLEAN, back_second \in BOOLEAN :
          LET outer_contours == [k \in 1..Len(all_bevel_rings) |->
                                    all_bevel_rings[k].outer_contour]
              inner_contours == [k \in 1..Len(all_bevel_rings) |->
                                    all_bevel_rings[k].inner_contour]
              buffers == [vertices |-> mesh_vertices, indices |-> mesh_indices]
              front == tessellate_contours_as_face_with_holes(
                           outer_contours, 0, front_first, front_second)
              back == tessellate_contours_as_face_with_holes(
                          inner_contours, extrusion_depth, back_first, back_second)
          IN  IF front.kind = "Err"
              THEN /\ cap_attempts' = <<front.runs>>
                   /\ mesh_result' = Err(front.value)
                   /\ pc' = "ringmesh_done"
                   /\ UNCHANGED <<mesh_vertices, mesh_indices>>
              ELSE LET with_front == tessellate_cap_interior_and_connect_to_boundary(
                                         buffers, front.value, FALSE)
                   IN  /\ cap_attempts' = <<front.runs, back.runs>>
                       /\ IF back.kind = "Err"
                          THEN /\ mesh_result' = Err(back.value)
                               /\ pc' = "ringmesh_done"
                               /\ mesh_vertices' = with_front.vertices
                               /\ mesh_indices' = with_front.indices
                          ELSE LET with_back ==
                                       tessellate_cap_interior_and_connect_to_boundary(
                                           with_front, back.value, TRUE)
                               IN  /\ mesh_result' = mesh_result
                                   /\ pc' = "ringmesh_caps_done"
                                   /\ mesh_vertices' = with_back.vertices
                                   /\ mesh_indices' = with_back.indices
    /\ UNCHANGED <<outsideMesh, front_cap, extrusion_depth, next_ring>>

\* build_mesh_from_bevel_rings: normals and UVs, then Ok
RingMeshReturn ==
    /\ pc = "ringmesh_caps_done"
    /\ mesh_result' = Ok(BeveledGlyphGeometry(mesh_vertices, mesh_indices, extrusion_depth))
    /\ pc' = "ringmesh_done"
    /\ UNCHANGED <<outsideMesh, front_cap, extrusion_depth, next_ring, mesh_vertices,
                   mesh_indices, cap_attempts>>

NextMesh ==
    \/ BeveledFrontCap
    \/ BeveledRing
    \/ BeveledReturn
    \/ RingMeshRing
    \/ RingMeshCaps
    \/ RingMeshReturn

SpecMesh ==
    /\ InitMesh
    /\ [][NextMesh]_vars

WellFormed(g) ==
    /\ Len(g.vertices) = Len(g.normals)
    /\ Len(g.vertices) = Len(g.uvs)
    /\ Len(g.indices) % 3 = 0
    /\ \A k \in 1..Len(g.indices) : g.indices[k] < Len(g.vertices)

\* C5: every geometry a mesh builder returns has as many normals and UVs as
\* vertices, an index count that is a multiple of 3, and no index that is not
\* below the vertex count.
C5_GeometryWellFormed ==
    mesh_result.kind = "Ok" => WellFormed(mesh_result.value)

\* C6: in build_beveled_mesh every ring of the bridge set of every BevelRings
\* processed has the target vertex count after resampling, and the assertion
\* on equal vertex counts does not fail.
C6_RingsHarmonized ==
    pc \in {"beveled_rings", "beveled_done"} =>
        /\ mesh_result.kind # "Panic"
        /\ \A k \in 1..(next_ring - 1) :
              \A r \in 1..Len(ResampledRings(all_bevel_rings[k])) :
                  Len(ResampledRings(all_bevel_rings[k])[r].vertices)
                      = determine_optimal_vertex_count(BridgeSet(all_bevel_rings[k]))

-----------------------------------------------------------------------------
(* offset.rs: the round trip contour -> polyline -> contour *)

\* compute_bevel_rings converts its contour with contour_to_polyline and makes
\* the outer contour with polyline_to_contour.  The contour is any list of
\* these points: three close to each other, two far from all others.
MaxTripVerts == 5     \* vertices of the contour of SpecRoundTrip

TripPoints == {<<0, 0>>, <<1, 1>>, <<-1, 0>>, <<8, 0>>, <<0, 8>>}

InitRoundTrip ==
    /\ IdleExtract /\ IdleTess /\ IdleMesh /\ IdleCheck /\ IdleGlyphSide
    /\ pc = "rings_entry"
    /\ contours \in {<<>>} \cup {<<Contour(vs, closed)>> :
                                    vs \in SeqsUpTo(TripPoints, MaxTripVerts),
                                    closed \in BOOLEAN}
    /\ bevel_segments = 1
    /\ next_contour = 1
    /\ polylines = <<>>
    /\ source_of = <<>>
    /\ next_polyline = 1
    /\ bevel_rings = <<>>
    /\ curr_offset = NoOffset
    /\ offset_requests = <<>>
    /\ all_bevel_rings = <<>>
    /\ rings_result = NoResult

SpecRoundTrip ==
    /\ InitRoundTrip
    /\ [][NextRings]_vars

\* three vertices of the contour are farther than the tolerance from each other
HasThreeUnique(contour) ==
    \E a \in 1..Len(contour.vertices), b \in 1..Len(contour.vertices),
       c \in 1..Len(contour.vertices) :
        /\ ~Near(contour.vertices[a], contour.vertices[b])
        /\ ~Near(contour.vertices[a], contour.vertices[c])
        /\ ~Near(contour.vertices[b], contour.vertices[c])

\* a.distance(b) <= VERTEX_TOLERANCE
WithinVertexTolerance(a, b) == Dist2(a, b) <= VERTEX_TOLERANCE * VERTEX_TOLERANCE

\* kept is vs with some of its elements left out
RECURSIVE IsSubsequence(_, _)
IsSubsequence(kept, vs) ==
    IF kept = <<>> THEN TRUE
    ELSE IF vs = <<>> THEN FALSE
    ELSE IF Head(kept) = Head(vs) THEN IsSubsequence(Tail(kept), Tail(vs))
    ELSE IsSubsequence(kept, Tail(vs))

\* C11: a contour with at least 3 unique vertices converts to a polyline, and
\* the contour made from that polyline has every vertex of the original
\* within the vertex tolerance of one of its vertices, keeps the original's
\* order, and has the same is_closed.
C11_RoundTrip ==
    (pc = "rings_done" /\ Len(contours) = 1 /\ HasThreeUnique(contours[1])) =>
        /\ Len(all_bevel_rings) = 1
        /\ LET c == contours[1]
               back == all_bevel_rings[1].outer_contour
           IN  /\ back = polyline_to_contour(contour_to_polyline(c).polyline)
               /\ back.is_closed = c.is_closed
               /\ IsSubsequence(back.vertices, c.vertices)
               /\ \A a \in 1..Len(c.vertices) :
                     \E b \in 1..Len(back.vertices) :
                         WithinVertexTolerance(c.vertices[a], back.vertices[b])


\* C13: with bevel_segments = 1, every BevelRings that compute_bevel_rings
\* returns has an empty rings list (only outer_contour and inner_contour),
\* whatever the offset operation returned.
C13_SingleSegmentNoIntermediate ==
    (pc = "rings_done" /\ bevel_segments = 1) =>
        \A i \in 1..Len(rings_result.value) : rings_result.value[i].rings = <<>>


\* the triangles stated for one subcontour: R bridged rings of T vertices
\* each give 2 * E * (R - 1) side triangles and T - 2 fan triangles
StatedTriangles(bevel_ring) ==
    LET resampled_rings == ResampledRings(bevel_ring)
        R == Len(resampled_rings)
        T == Len(resampled_rings[R].vertices)
        E == IF resampled_rings[R].is_closed THEN T ELSE T - 1
    IN  2 * E * (R - 1) + (T - 2)

RECURSIVE StatedTriangleSum(_, _)
StatedTriangleSum(rings, k) ==
    IF k > Len(rings) THEN 0
    ELSE StatedTriangles(rings[k]) + StatedTriangleSum(rings, k + 1)

\* C14: the triangle count of a geometry returned by build_beveled_mesh is the
\* triangle count of the front cap plus, for every subcontour with R bridged
\* rings resampled to T vertices, 2 * E * (R - 1) side triangles (E = T for
\* closed rings, T - 1 for open ones) and T - 2 back-cap fan triangles.
C14_TriangleCount ==
    (pc = "beveled_done" /\ mesh_result.kind = "Ok") =>
        Len(mesh_result.value.indices) =
            Len(front_cap.indices) + 3 * StatedTriangleSum(all_bevel_rings, 1)


\* the rings a builder has laid down for subcontour k, in the order of their
\* vertices in the vertex buffer
LaidRings(k) ==
    IF pc \in {"beveled_rings", "beveled_done"}
    THEN ResampledRings(all_bevel_rings[k])
    ELSE <<all_bevel_rings[k].outer_contour>> \o all_bevel_rings[k].rings
             \o <<all_bevel_rings[k].inner_contour>>

\* the subcontours whose ring vertices are in the vertex buffer
LaidCount ==
    IF pc \in {"beveled_entry"} THEN 0
    ELSE IF mesh_result.kind \in {"Panic", "Err"} /\ cap_attempts = <<>>
    THEN next_ring - 2
    ELSE next_ring - 1

RECURSIVE SubcontourBase(_)
SubcontourBase(k) ==
    IF k <= 1 THEN Len(front_cap.vertices)
    ELSE SubcontourBase(k - 1)
         + RingOffset(LaidRings(k - 1), Len(LaidRings(k - 1)) + 1)

\* the z of vertex i of ring r of subcontour k
LaidZ(k, r, i) ==
    mesh_vertices[SubcontourBase(k) + RingOffset(LaidRings(k), r) + i][3]

\* C20: in both mesh builders ring r (from 0) of the k bevel rings of a
\* subcontour (outer, intermediates, inner) is at z = extrusion_depth * r / (k - 1),
\* so ring 0 is at 0 and inner_contour at extrusion_depth; the copy of the
\* outer contour that build_beveled_mesh appends is at extrusion_depth; z does
\* not decrease along the rings and stays within 0..extrusion_depth.
C20_LinearDepth ==
    pc \in {"beveled_rings", "beveled_done", "ringmesh_rings", "ringmesh_caps_done",
            "ringmesh_done"} =>
        \A k \in 1..LaidCount :
            LET laid == LaidRings(k)
                base == SubcontourBase(k)
                bevel_rings_k == Len(all_bevel_rings[k].rings) + 2
                z_of == [r \in 1..Len(laid) |->
                            [i \in 1..Len(laid[r].vertices) |->
                                mesh_vertices[base + RingOffset(laid, r) + i][3]]]
            IN  \A r \in 1..Len(laid) :
                    \A i \in 1..Len(laid[r].vertices) :
                        /\ r <= bevel_rings_k =>
                               z_of[r][i] * (bevel_rings_k - 1) = extrusion_depth * (r - 1)
                        /\ r > bevel_rings_k => z_of[r][i] = extrusion_depth
                        /\ 0 <= z_of[r][i] /\ z_of[r][i] <= extrusion_depth
                        /\ r > 1 => \A j \in 1..Len(laid[r - 1].vertices) :
                                        z_of[r - 1][j] <= z_of[r][i]

\* a beveled mesh with an intermediate ring, which lies at half the depth
C20_Witness ==
    /\ pc = "beveled_done"
    /\ mesh_result.kind = "Ok"
    /\ extrusion_depth = 12
    /\ \E k \in 1..Len(all_bevel_rings) :
          /\ all_bevel_rings[k].rings # <<>>
          /\ LaidZ(k, 2, 1) = 6
          /\ LaidZ(k, 3, 1) = 12
          /\ LaidZ(k, 4, 1) = 12


-----------------------------------------------------------------------------
(* glyph.rs: extract_glyph_outline *)

\* What the font database and the parsed face hold for the glyph of
\* glyph_info: whether with_face_data finds the font, whether Face::parse
\* succeeds, the glyph's bounding box if it has one, whether outline_glyph
\* succeeds, and the path the command encoder has built from the outline.
SampleFonts ==
    { [found |-> found, parses |-> parses, units_per_em |-> units,
       has_bounding_box |-> has_box,
       bounding_box |-> [x_min |-> 0, y_min |-> 0, x_max |-> 8, y_max |-> 8],
       has_outline |-> has_outline, path |-> events] :
         found \in BOOLEAN, parses \in BOOLEAN, units \in {1, 2}, has_box \in BOOLEAN,
         has_outline \in BOOLEAN, events \in {<<>>} \cup SamplePaths }

GlyphOutline(outline_path, box, glyph_id, size, units) ==
    [path |-> outline_path, bounding_box |-> box, glyph_id |-> glyph_id,
     font_size |-> size, units_per_em |-> units]

PathNeverEmpty(events) == FALSE

\* path.iter().next().is_none()
PathIsEmpty(events) == events = <<>>

InitOutline ==
    /\ IdleExtract /\ IdleRings /\ IdleTess /\ IdleMesh /\ IdleCheck
    /\ IdlePipeline /\ IdleText
    /\ contours = <<>>
    /\ pc = "outline_entry"
    /\ glyph_info \in [glyph_id : {7}, font_size : {2, 4}]
    /\ font_data \in SampleFonts
    /\ outline_result = NoResult

\* font_system.db().with_face_data(glyph_info.font_id, ...): None for a font
\* id the database does not hold, and then .ok_or(FontParseFailed)?
WithFaceData ==
    /\ pc = "outline_entry"
    /\ IF font_data.found
       THEN /\ pc' = "outline_parse"
            /\ UNCHANGED outline_result
       ELSE /\ outline_result' = Err("FontParseFailed")
            /\ pc' = "outline_done"
    /\ UNCHANGED <<outsideOutline, glyph_info, font_data>>

\* ttf::Face::parse(font_bytes, font_index).map_err(|_| FontParseFailed)?
ParseFace ==
    /\ pc = "outline_parse"
    /\ IF font_data.parses
       THEN /\ pc' = "outline_bbox"
            /\ UNCHANGED outline_result
       ELSE /\ outline_result' = Err("FontParseFailed")
            /\ pc' = "outline_done"
    /\ UNCHANGED <<outsideOutline, glyph_info, font_data>>

\* face.glyph_bounding_box(glyph_id).ok_or(GlyphNotFound)?
GlyphBoundingBox ==
    /\ pc = "outline_bbox"
    /\ IF font_data.has_bounding_box
       THEN /\ pc' = "outline_glyph"
            /\ UNCHANGED outline_result
       ELSE /\ outline_result' = Err("GlyphNotFound")
            /\ pc' = "outline_done"
    /\ UNCHANGED <<outsideOutline, glyph_info, font_data>>

\* face.outline_glyph(glyph_id, &mut builder); None is PathBuildingFailed
OutlineGlyph ==
    /\ pc = "outline_glyph"
    /\ IF font_data.has_outline
       THEN /\ pc' = "outline_path"
            /\ UNCHANGED outline_result
       ELSE /\ outline_result' = Err("PathBuildingFailed")
            /\ pc' = "outline_done"
    /\ UNCHANGED <<outsideOutline, glyph_info, font_data>>

\* builder.build_path(), the test for an empty path, and Ok(GlyphOutline {..})
BuildPath ==
    /\ pc = "outline_path"
    /\ outline_result' =
          IF PathIsEmpty(font_data.path)
          THEN Err("PathBuildingFailed")
          ELSE Ok(GlyphOutline(font_data.path, font_data.bounding_box, glyph_info.glyph_id,
                               glyph_info.font_size, font_data.units_per_em))
    /\ pc' = "outline_done"
    /\ UNCHANGED <<outsideOutline, glyph_info, font_data>>

NextOutline ==
    \/ WithFaceData
    \/ ParseFace
    \/ GlyphBoundingBox
    \/ OutlineGlyph
    \/ BuildPath

SpecOutline ==
    /\ InitOutline
    /\ [][NextOutline]_vars

IsErr(result, error) == result.kind = "Err" /\ result.value = error

\* C15: extract_glyph_outline returns FontParseFailed when the font id is
\* unknown or the face does not parse, GlyphNotFound when the glyph has no
\* bounding box, PathBuildingFailed when the outline cannot be built or the
\* built path is empty, the checks being made in that order (a glyph with
\* neither bounding box nor outline gives GlyphNotFound); it returns Ok, with
\* the path, the box, the glyph id, the font size and the units per em, only
\* when all three checks pass.
C15_OutlineErrors ==
    pc = "outline_done" =>
        LET font_ok == font_data.found /\ font_data.parses
            box_ok == font_data.has_bounding_box
            path_ok == font_data.has_outline /\ font_data.path # <<>>
        IN  /\ ~font_ok => IsErr(outline_result, "FontParseFailed")
            /\ (font_ok /\ ~box_ok) => IsErr(outline_result, "GlyphNotFound")
            /\ (font_ok /\ box_ok /\ ~path_ok) => IsErr(outline_result, "PathBuildingFailed")
            /\ (font_ok /\ box_ok /\ path_ok) =>
                   /\ outline_result.kind = "Ok"
                   /\ outline_result.value =
                          GlyphOutline(font_data.path, font_data.bounding_box,
                                       glyph_info.glyph_id, glyph_info.font_size,
                                       font_data.units_per_em)

\* a space glyph: no bounding box, no outline, an empty path
C15_Witness ==
    /\ pc = "outline_done"
    /\ font_data.found /\ font_data.parses
    /\ ~font_data.has_bounding_box /\ ~font_data.has_outline /\ font_data.path = <<>>
    /\ IsErr(outline_result, "GlyphNotFound")


-----------------------------------------------------------------------------
(* extrude_glyph.rs: tessellate_beveled_glyph_with_gizmos *)

\* The function calls its six stages one after the other; each stage runs as
\* modelled above, between the step that calls it and the step that takes its
\* result.  cavalier_contours is a deterministic library: what parallel_offset
\* returns is a function of its arguments, here the number of loops by
\* requested distance, none beyond the end of the list.
SampleLibraries == {<<>>, <<1>>, <<1, 1>>, <<2>>, <<1, 2>>}

LoopsAt(library, distance) ==
    IF distance <= Len(library) THEN library[distance] ELSE 0

\* every parallel_offset call so far returned what the library returns
ObeysLibrary ==
    \A i \in 1..Len(offset_requests) :
        \A j \in 1..Len(offset_requests[i]) :
            offset_requests[i][j].loops
                = LoopsAt(offset_library, offset_requests[i][j].distance)

\* the stages in the order of their calls
StageOrder == <<"outline", "front_cap", "contours", "rings", "mesh", "check">>

\* the ? operator: an Err is returned to the caller as it is
PropagateAsInvalidInput(result) == Err("InvalidInput")

Propagate(result) == result

\* the geometry as check_mesh reads it: the components of the vertices, and
\* of a normal its length (1 or 0 after normalize_or_zero)
AsChecked(g) ==
    [vertices |-> [i \in 1..Len(g.vertices) |->
                      Vec3(g.vertices[i][1], g.vertices[i][2], g.vertices[i][3])],
     indices |-> g.indices,
     normals |-> [i \in 1..Len(g.normals) |-> Vec3(0, 0, g.normals[i].length)],
     uvs |-> g.uvs]

\* ExtrudedGlyphGeometry { vertices, indices, normals, uvs } with the centre
ExtrudedResult(g, cx, cy) ==
    [geometry |-> [vertices |-> g.vertices, indices |-> g.indices,
                   normals |-> g.normals, uvs |-> g.uvs],
     center_x |-> cx, center_y |-> cy]

\* an outline that comes back to a point it has left
RevisitingPath == << <<0, 0>>, <<8, 0>>, <<8, 8>>, <<8, 0>>, <<0, 8>> >>

PipelineFonts ==
    {f \in SampleFonts : f.units_per_em = 1}
        \cup {[found |-> TRUE, parses |-> TRUE, units_per_em |-> 1, has_bounding_box |-> TRUE,
               bounding_box |-> [x_min |-> 0, y_min |-> 0, x_max |-> 8, y_max |-> 8],
               has_outline |-> TRUE, path |-> RevisitingPath]}

InitPipeline ==
    /\ IdleExtract /\ IdleTess /\ IdleCheck /\ IdleText
    /\ pc = "pipeline_entry"
    /\ contours = <<>>
    /\ glyph_info = [glyph_id |-> 7, font_size |-> 2]
    /\ font_data \in PipelineFonts
    /\ outline_result = NoResult
    /\ bevel_segments \in {1, 2}
    /\ offset_library \in SampleLibraries
    /\ profile_power = DefaultProfilePower
    /\ next_contour = 1
    /\ polylines = <<>>
    /\ source_of = <<>>
    /\ next_polyline = 1
    /\ bevel_rings = <<>>
    /\ curr_offset = NoOffset
    /\ offset_requests = <<>>
    /\ all_bevel_rings = <<>>
    /\ rings_result = NoResult
    /\ front_cap = [vertices |-> <<>>, indices |-> <<>>]
    /\ extrusion_depth = 12
    /\ next_ring = 1
    /\ mesh_vertices = <<>>
    /\ mesh_indices = <<>>
    /\ cap_attempts = <<>>
    /\ mesh_result = NoResult
    /\ stages_run = <<>>
    /\ run = 1
    /\ first_run = <<>>
    /\ pipeline_result = NoResult

\* 1. crate::glyph::extract_glyph_outline(glyph_info, font_system) is called
CallOutline ==
    /\ pc = "pipeline_entry"
    /\ stages_run' = Append(stages_run, "outline")
    /\ pc' = "outline_entry"
    /\ UNCHANGED <<contours, extractVars, ringsVars, tessVars, meshVars, checkVars,
                   outlineVars, textVars, offset_library, profile_power, run, first_run, pipeline_result>>

\* the ? on the outline, then 2. crate::tess::tessellate_front_cap is called
\* with the fields of the outline
AfterOutline ==
    /\ pc = "outline_done"
    /\ IF outline_result.kind = "Err"
       THEN /\ pipeline_result' = Propagate(outline_result)
            /\ pc' = "pipeline_done"
            /\ UNCHANGED <<stages_run, tessVars>>
       ELSE /\ path' = outline_result.value.path
            /\ bounding_box' = outline_result.value.bounding_box
            /\ font_size' = outline_result.value.font_size
            /\ units_per_em' = outline_result.value.units_per_em
            /\ options' = FillOptionsDefault
            /\ stages_run' = Append(stages_run, "front_cap")
            /\ pc' = "tess_first"
            /\ UNCHANGED <<geometry, attempts, tess_result, pipeline_result>>
    /\ UNCHANGED <<contours, extractVars, ringsVars, meshVars, checkVars, outlineVars,
                   textVars, offset_library, profile_power, run, first_run>>

\* the ? on the front cap, then 3. crate::offset::extract_contours is called
\* with the path and the front cap's scale_factor, center_x and center_y; the
\* locals of tessellate_front_cap are gone
AfterFrontCap ==
    /\ pc = "tess_done"
    /\ IF tess_result.kind = "Err"
       THEN /\ pipeline_result' = Propagate(tess_result)
            /\ pc' = "pipeline_done"
            /\ UNCHANGED <<stages_run, scale_factor, center_x, center_y>>
       ELSE /\ scale_factor' = tess_result.value.scale_factor
            /\ center_x' = tess_result.value.center_x
            /\ center_y' = tess_result.value.center_y
            /\ stages_run' = Append(stages_run, "contours")
            /\ pc' = "pipeline_contours"
            /\ UNCHANGED pipeline_result
    /\ options' = [tolerance |-> 0, fill_rule |-> "EvenOdd"]
    /\ geometry' = [vertices |-> <<>>, indices |-> <<>>]
    /\ attempts' = <<>>
    /\ UNCHANGED <<contours, current_vertices, start_pos, in_subpath, subpaths_read,
                   ringsVars, meshVars, checkVars, outlineVars, textVars, path, bounding_box,
                   font_size, units_per_em, tess_result, offset_library, profile_power, run, first_run>>

\* extract_contours on the path of the outline: one closed subpath of lines,
\* Begin at its first point, a Line to each of the others, End { close: true }
ExtractFromPath ==
    /\ pc = "pipeline_contours"
    /\ LET read == [i \in 1..Len(path) |-> ToContourSpace(path[i])]
       IN  contours' = IF Len(read) >= MinContourVertices
                       THEN <<Contour(FinishSubpath(read, read[1], TRUE), TRUE)>>
                       ELSE <<>>
    /\ subpaths_read' = 1
    /\ pc' = "extract_done"
    /\ UNCHANGED <<current_vertices, start_pos, in_subpath, scale_factor, center_x, center_y,
                   ringsVars, tessVars, meshVars, checkVars, glyphSideVars>>

\* 4. crate::offset::compute_bevel_rings is called with the contours
AfterContours ==
    /\ pc = "extract_done"
    /\ stages_run' = Append(stages_run, "rings")
    /\ pc' = "rings_entry"
    /\ UNCHANGED <<contours, extractVars, ringsVars, tessVars, meshVars, checkVars,
                   outlineVars, textVars, offset_library, profile_power, run, first_run, pipeline_result>>

\* the first parallel_offset call of a polyline, answered by the library
LibraryStartPolyline ==
    /\ StartPolyline
    /\ ObeysLibrary'

\* the offset loop, its parallel_offset call answered by the library
LibraryOffsetStep ==
    /\ OffsetStep
    /\ ObeysLibrary'

\* the ? on the bevel rings, then 5. crate::mesh::build_beveled_mesh is called
\* with the vertices and indices of the front cap and the bevel rings
AfterRings ==
    /\ pc = "rings_done"
    /\ IF rings_result.kind = "Err"
       THEN /\ pipeline_result' = Propagate(rings_result)
            /\ pc' = "pipeline_done"
            /\ UNCHANGED <<stages_run, front_cap>>
       ELSE /\ front_cap' = [vertices |-> tess_result.value.vertices,
                             indices |-> tess_result.value.indices]
            /\ stages_run' = Append(stages_run, "mesh")
            /\ pc' = "beveled_entry"
            /\ UNCHANGED pipeline_result
    /\ UNCHANGED <<contours, extractVars, ringsVars, tessVars, checkVars, outlineVars,
                   textVars, extrusion_depth, next_ring, mesh_vertices, mesh_indices,
                   cap_attempts, mesh_result, offset_library, profile_power, run, first_run>>

\* the ? on the mesh (a panic of the builder unwinds through the function),
\* then 6. crate::mesh::check_mesh is called with the geometry
AfterMesh ==
    /\ pc = "beveled_done"
    /\ IF mesh_result.kind \in {"Err", "Panic"}
       THEN /\ pipeline_result' = Propagate(mesh_result)
            /\ pc' = "pipeline_done"
            /\ UNCHANGED <<stages_run, mesh_geometry>>
       ELSE /\ mesh_geometry' = AsChecked(mesh_result.value)
            /\ stages_run' = Append(stages_run, "check")
            /\ pc' = "check_entry"
            /\ UNCHANGED pipeline_result
    /\ UNCHANGED <<contours, extractVars, ringsVars, tessVars, meshVars, outlineVars,
                   textVars, validation, check_result, offset_library, profile_power, run, first_run>>

\* the ? on the validation, then Ok((extruded_geometry, center_x, center_y))
AfterCheck ==
    /\ pc = "check_done"
    /\ pipeline_result' =
          IF check_result.kind \in {"Err", "Panic"}
          THEN Propagate(check_result)
          ELSE Ok(ExtrudedResult(mesh_result.value, tess_result.value.center_x,
                                 tess_result.value.center_y))
    /\ pc' = "pipeline_done"
    /\ UNCHANGED <<contours, extractVars, ringsVars, tessVars, meshVars, checkVars,
                   outlineVars, textVars, offset_library, profile_power, stages_run, run, first_run>>

\* The stages from extract_contours on are called a second time with the
\* arguments of the first time: the same path and front cap, the same bevel
\* parameters and extrusion depth.  Their locals are new.
RunAgain ==
    /\ pc = "pipeline_done"
    /\ run = 1
    /\ Len(stages_run) >= 3
    /\ first_run' = <<contours, rings_result, mesh_result, check_result>>
    /\ run' = 2
    /\ stages_run' = <<"contours">>
    /\ pipeline_result' = NoResult
    /\ pc' = "pipeline_contours"
    /\ contours' = <<>>
    /\ subpaths_read' = 0
    /\ next_contour' = 1
    /\ polylines' = <<>>
    /\ source_of' = <<>>
    /\ next_polyline' = 1
    /\ bevel_rings' = <<>>
    /\ curr_offset' = NoOffset
    /\ offset_requests' = <<>>
    /\ all_bevel_rings' = <<>>
    /\ rings_result' = NoResult
    /\ front_cap' = [vertices |-> <<>>, indices |-> <<>>]
    /\ next_ring' = 1
    /\ mesh_vertices' = <<>>
    /\ mesh_indices' = <<>>
    /\ cap_attempts' = <<>>
    /\ mesh_result' = NoResult
    /\ mesh_geometry' = [vertices |-> <<>>, indices |-> <<>>, normals |-> <<>>, uvs |-> <<>>]
    /\ validation' = NoValidation
    /\ check_result' = NoResult
    /\ UNCHANGED <<current_vertices, start_pos, in_subpath, scale_factor, center_x, center_y,
                   bevel_segments, tessVars, extrusion_depth, outlineVars, textVars,
                   offset_library, profile_power>>

NextPipeline ==
    \/ CallOutline
    \/ WithFaceData
    \/ ParseFace
    \/ GlyphBoundingBox
    \/ OutlineGlyph
    \/ BuildPath
    \/ AfterOutline
    \/ FirstAttempt
    \/ SecondAttempt
    \/ ThirdAttempt
    \/ TessReturn
    \/ AfterFrontCap
    \/ ExtractFromPath
    \/ AfterContours
    \/ RingsEntry
    \/ ConvertContour
    \/ ConvertDone
    \/ LibraryStartPolyline
    \/ LibraryOffsetStep
    \/ AssembleBevelRings
    \/ RingsReturn
    \/ AfterRings
    \/ BeveledFrontCap
    \/ BeveledRing
    \/ BeveledReturn
    \/ AfterMesh
    \/ CheckLengths
    \/ CheckVertices
    \/ CountDegenerate
    \/ CheckNormals
    \/ CheckThresholds
    \/ AfterCheck
    \/ RunAgain

SpecPipeline ==
    /\ InitPipeline
    /\ [][NextPipeline]_vars


\* what a stage returned
StageResult(stage) ==
    CASE stage = "outline" -> outline_result
      [] stage = "front_cap" -> tess_result
      [] stage = "contours" -> Ok(contours)
      [] stage = "rings" -> rings_result
      [] stage = "mesh" -> mesh_result
      [] stage = "check" -> check_result

SameResult(a, b) == a.kind = b.kind /\ a.value = b.value

\* C16: tessellate_beveled_glyph calls its stages in the order outline
\* extraction, front-cap tessellation, contour extraction, bevel rings, mesh
\* building, validation; when a stage returns an error no later stage is
\* called and the function returns that error unchanged; it returns Ok only
\* after every stage was called and check_mesh accepted the built geometry.
C16_StageOrder ==
    run = 1 =>
        /\ Len(stages_run) <= Len(StageOrder)
        /\ \A i \in 1..Len(stages_run) : stages_run[i] = StageOrder[i]
        /\ \A i \in 1..(Len(stages_run) - 1) : StageResult(stages_run[i]).kind = "Ok"
        /\ pipeline_result.kind = "Err" =>
               SameResult(pipeline_result, StageResult(stages_run[Len(stages_run)]))
        /\ (stages_run # <<>> /\ StageResult(stages_run[Len(stages_run)]).kind = "Err") =>
               pc \in {"outline_done", "tess_done", "rings_done", "beveled_done",
                       "check_done", "pipeline_done"}
        /\ (pc = "pipeline_done" /\ stages_run # <<>>
               /\ StageResult(stages_run[Len(stages_run)]).kind = "Err") =>
               pipeline_result.kind = "Err"
        /\ pipeline_result.kind = "Ok" =>
               /\ stages_run = StageOrder
               /\ check_result.kind = "Ok"
               /\ mesh_result.kind = "Ok"
               /\ pipeline_result.value.geometry = mesh_result.value

\* the validation rejects the built geometry, and the function returns its error
C16_Witness ==
    /\ run = 1
    /\ pc = "pipeline_done"
    /\ stages_run = StageOrder
    /\ check_result.kind = "Err"
    /\ SameResult(pipeline_result, check_result)

-----------------------------------------------------------------------------
(* text_glyphs.rs: TextGlyphs::generate_mesh_glyphs *)

MaxGlyphs == 3        \* glyphs of the layout runs

\* A glyph of a layout run: its id in its font, its font, its size, and the
\* index of its material (glyph.metadata).  Glyph ids are per font.
SampleGlyphs ==
    {[glyph_id |-> g, font_id |-> f, font_size |-> 1, metadata |-> f - 1] :
        g \in {1, 2}, f \in {1, 2}}
        \cup {[glyph_id |-> 1, font_id |-> 1, font_size |-> 2, metadata |-> 0]}

\* What the two tessellation functions return for a glyph of a font:
\* tessellate_beveled_glyph Ok or Err, and the closure around tessalate_glyph
\* Some or None (None for a face that does not parse, a glyph without
\* bounding box, or an Err of tessalate_glyph).
SampleOutcomes ==
    { [beveled |-> "Ok", plain |-> "Some"],
      [beveled |-> "Err", plain |-> "Some"],
      [beveled |-> "Err", plain |-> "None"] }

OutcomeOf(glyph) == glyph_outcomes[glyph.font_id][glyph.glyph_id]

\* (glyph.glyph_id, use_beveling)
CacheKey(glyph) == <<glyph.glyph_id, use_beveling>>

\* mesh_map.get(&cache_key): the entries of the map with that key
CacheEntries(key) == {e \in 1..Len(mesh_map) : mesh_map[e].key = key}

\* the tessellation calls the closure of or_else makes for a glyph, in order
TessellationCalls(glyph, index) ==
    IF use_beveling
    THEN IF OutcomeOf(glyph).beveled = "Ok"
         THEN <<[index |-> index, key |-> CacheKey(glyph), call |-> "tessellate_beveled_glyph",
                 returned |-> "Ok"]>>
         ELSE <<[index |-> index, key |-> CacheKey(glyph), call |-> "tessellate_beveled_glyph",
                 returned |-> "Err"],
                [index |-> index, key |-> CacheKey(glyph), call |-> "tessalate_glyph",
                 returned |-> OutcomeOf(glyph).plain]>>
    ELSE <<[index |-> index, key |-> CacheKey(glyph), call |-> "tessalate_glyph",
            returned |-> OutcomeOf(glyph).plain]>>

\* tessellation_result: the geometry of the last call if it returned one
TessellationResult(calls) ==
    LET last == calls[Len(calls)]
    IN  IF last.returned \in {"Ok", "Some"}
        THEN [some |-> TRUE, index |-> last.index, key |-> last.key, built_by |-> last.call]
        ELSE [some |-> FALSE, index |-> last.index, key |-> last.key, built_by |-> last.call]

\* materials.get(glyph.metadata).unwrap_or_else(|| &materials[0])
MaterialOf(glyph) == IF glyph.metadata < materials THEN glyph.metadata ELSE 0

PushGlyphFirst(glyphs, mesh_glyph) == <<mesh_glyph>> \o glyphs

\* processed_glyphs.push(MeshGlyph { .. })
PushGlyph(glyphs, mesh_glyph) == Append(glyphs, mesh_glyph)

\* the position x, y of the glyph stands for its place in the layout
MeshGlyph(index, glyph, handle) ==
    [index |-> index, glyph_id |-> glyph.glyph_id, font_id |-> glyph.font_id,
     height |-> glyph.font_size, mesh |-> handle, material |-> MaterialOf(glyph)]

InitText ==
    /\ IdleExtract /\ IdleRings /\ IdleTess /\ IdleMesh /\ IdleCheck
    /\ IdleOutline /\ IdlePipeline
    /\ contours = <<>>
    /\ pc = "text_glyphs"
    /\ layout_glyphs \in SeqsUpTo(SampleGlyphs, MaxGlyphs)
    /\ glyph_outcomes \in [{1, 2} -> [{1, 2} -> SampleOutcomes]]
    /\ use_beveling \in BOOLEAN
    /\ materials \in {1, 2}
    /\ next_glyph = 1
    /\ mesh_map = <<>>
    /\ meshes = <<>>
    /\ tessellations = <<>>
    /\ processed_glyphs = <<>>
    /\ text_result = NoResult

\* one run of the body of the loop over the glyphs
ProcessGlyph ==
    /\ pc = "text_glyphs"
    /\ next_glyph <= Len(layout_glyphs)
    /\ LET glyph == layout_glyphs[next_glyph]
           cache_key == CacheKey(glyph)
           calls == TessellationCalls(glyph, next_glyph)
           result == TessellationResult(calls)
           added == Len(meshes) + 1
       IN  IF CacheEntries(cache_key) # {}
           THEN LET entry == mesh_map[CHOOSE e \in CacheEntries(cache_key) : TRUE]
                IN  /\ processed_glyphs' =
                           PushGlyph(processed_glyphs,
                                     MeshGlyph(next_glyph, glyph, entry.handle))
                    /\ UNCHANGED <<mesh_map, meshes, tessellations>>
           ELSE /\ tessellations' = tessellations \o calls
                /\ IF result.some
                   THEN /\ meshes' = Append(meshes, result)
                        /\ mesh_map' = Append(mesh_map, [key |-> cache_key, handle |-> added])
                        /\ processed_glyphs' =
                               PushGlyph(processed_glyphs, MeshGlyph(next_glyph, glyph, added))
                   ELSE UNCHANGED <<mesh_map, meshes, processed_glyphs>>
    /\ next_glyph' = next_glyph + 1
    /\ UNCHANGED <<outsideText, pc, layout_glyphs, glyph_outcomes, use_beveling, materials,
                   text_result>>

\* processed_glyphs is returned
TextReturn ==
    /\ pc = "text_glyphs"
    /\ next_glyph > Len(layout_glyphs)
    /\ text_result' = Ok(processed_glyphs)
    /\ pc' = "text_done"
    /\ UNCHANGED <<outsideText, layout_glyphs, glyph_outcomes, use_beveling, materials,
                   next_glyph, mesh_map, meshes, tessellations, processed_glyphs>>

NextText ==
    \/ ProcessGlyph
    \/ TextReturn

SpecText ==
    /\ InitText
    /\ [][NextText]_vars


\* the layout positions of the glyphs with a cache key
Occurrences(key) ==
    {i \in 1..Len(layout_glyphs) : CacheKey(layout_glyphs[i]) = key}

FirstOccurrence(key) ==
    CHOOSE i \in Occurrences(key) : \A j \in Occurrences(key) : i <= j

\* the layout positions at which a tessellation function was called for a key
TessellatedAt(key) ==
    {tessellations[t].index : t \in {u \in 1..Len(tessellations) : tessellations[u].key = key}}

\* C17: within one generate_mesh_glyphs call, for every (glyph_id, bevel-enabled)
\* key whose tessellation succeeds, the glyph is tessellated and a mesh asset
\* is added exactly once, at the first occurrence of the key; every later
\* occurrence of the key is served from the cache and carries the same mesh
\* handle.
C17_TessellatedOnce ==
    pc = "text_done" =>
        \A e \in 1..Len(mesh_map) :
            LET key == mesh_map[e].key
            IN  /\ TessellatedAt(key) = {FirstOccurrence(key)}
                /\ Cardinality({h \in 1..Len(meshes) : meshes[h].key = key}) = 1
                /\ meshes[mesh_map[e].handle].index = FirstOccurrence(key)
                /\ \A g \in 1..Len(processed_glyphs) :
                       CacheKey(layout_glyphs[processed_glyphs[g].index]) = key =>
                           processed_glyphs[g].mesh = mesh_map[e].handle

\* the glyph at layout position i has a mesh: a tessellation gave one for it,
\* or for an earlier glyph with its cache key
MeshObtained(i) ==
    \E j \in 1..i :
        /\ CacheKey(layout_glyphs[j]) = CacheKey(layout_glyphs[i])
        /\ \/ OutcomeOf(layout_glyphs[j]).plain = "Some"
           \/ use_beveling /\ OutcomeOf(layout_glyphs[j]).beveled = "Ok"

\* C18: generate_mesh_glyphs skips a glyph whose mesh cannot be produced and
\* goes on with the glyphs after it: it returns, and its output holds one
\* MeshGlyph for every glyph whose mesh was obtained, in layout order, and
\* none for the others.
C18_FailedGlyphsSkipped ==
    pc = "text_done" =>
        /\ text_result.kind = "Ok"
        /\ next_glyph = Len(layout_glyphs) + 1
        /\ \A i \in 1..Len(layout_glyphs) :
               Cardinality({g \in 1..Len(processed_glyphs) : processed_glyphs[g].index = i})
                   = IF MeshObtained(i) THEN 1 ELSE 0
        /\ \A g \in 1..(Len(processed_glyphs) - 1) :
               processed_glyphs[g].index < processed_glyphs[g + 1].index
        /\ \A g \in 1..Len(processed_glyphs) :
               processed_glyphs[g].glyph_id = layout_glyphs[processed_glyphs[g].index].glyph_id

\* a glyph without mesh between two glyphs with one
C18_Witness ==
    /\ pc = "text_done"
    /\ Len(layout_glyphs) = 3
    /\ MeshObtained(1) /\ ~MeshObtained(2) /\ MeshObtained(3)
    /\ Len(processed_glyphs) = 2
    /\ processed_glyphs[1].index = 1
    /\ processed_glyphs[2].index = 3

\* C19: with beveling enabled, a glyph for which tessellate_beveled_glyph
\* returns an error gets no substitute geometry: it is missing from the
\* output, and no mesh is stored for it under its bevel-enabled cache key.
C19_NoSubstituteGeometry ==
    (pc = "text_done" /\ use_beveling) =>
        \A t \in 1..Len(tessellations) :
            (tessellations[t].call = "tessellate_beveled_glyph"
                 /\ tessellations[t].returned = "Err") =>
                /\ \A g \in 1..Len(processed_glyphs) :
                       processed_glyphs[g].index # tessellations[t].index
                /\ \A e \in 1..Len(mesh_map) :
                       meshes[mesh_map[e].handle].index # tessellations[t].index

-----------------------------------------------------------------------------
(* offset.rs: the offset requests of compute_bevel_rings *)

\* C21: for each subcontour the k-th offset request (k = 1, 2, .., at most
\* bevel_segments) is made at the cumulative distance k offset steps
\* (k * bevel_width / bevel_segments), whatever number of loops the earlier
\* requests returned.
C21_CumulativeDistances ==
    \A i \in 1..Len(offset_requests) :
        /\ Len(offset_requests[i]) <= bevel_segments
        /\ \A k \in 1..Len(offset_requests[i]) : offset_requests[i][k].distance = k

\* C22: once an offset request of a subcontour returns no loops, no further
\* request is made for it, and its BevelRings has as outer_contour ring 0 (the
\* contour of the subcontour's polyline, which is the original contour when
\* the cleanup removed nothing) and as inner_contour the last ring generated
\* before the empty offset: ring 0 itself, with rings empty, when the first
\* offset is empty.
C22_StopsAtEmptyOffset ==
    /\ \A i \in 1..Len(offset_requests) :
           \A k \in 1..Len(offset_requests[i]) :
               offset_requests[i][k].loops = 0 => k = Len(offset_requests[i])
    /\ \A i \in 1..Len(all_bevel_rings) :
           LET requests == offset_requests[i]
               last == requests[Len(requests)]
               emitted == all_bevel_rings[i]
               original == contours[source_of[i]]
           IN  /\ emitted.outer_contour = polyline_to_contour(polylines[i])
               /\ cleanup_vertices_for_offset(original.vertices) = original.vertices =>
                      emitted.outer_contour.vertices = original.vertices
               /\ (last.loops = 0 /\ Len(requests) = 1) =>
                      /\ emitted.inner_contour = emitted.outer_contour
                      /\ emitted.rings = <<>>
               /\ (last.loops = 0 /\ Len(requests) > 1) =>
                      emitted.inner_contour =
                          polyline_to_contour(
                              OffsetLoop(requests[Len(requests) - 1].distance,
                                         requests[Len(requests) - 1].loops))

\* a subcontour whose second offset is empty, before bevel_segments is reached
C22_Witness ==
    /\ pc = "rings_done"
    /\ bevel_segments = 3
    /\ \E i \in 1..Len(all_bevel_rings) :
          /\ Len(offset_requests[i]) = 2
          /\ offset_requests[i][1].loops = 1
          /\ offset_requests[i][2].loops = 0
          /\ all_bevel_rings[i].inner_contour = polyline_to_contour(OffsetLoop(1, 1))
          /\ all_bevel_rings[i].rings = <<>>

-----------------------------------------------------------------------------
(* offset.rs: compute_bevel_rings called twice, with two profile powers *)

MaxProfilePower == 2  \* profile powers tried

ProfilePowers == 1..MaxProfilePower

\* compute_bevel_rings(contours, bevel_width, bevel_segments, profile_power,
\* _glyph_id), the offset library answering as a function of the distance
InitProfile ==
    /\ IdleExtract /\ IdleTess /\ IdleMesh /\ IdleCheck /\ IdleOutline /\ IdleText
    /\ pc = "rings_entry"
    /\ contours \in SeqsUpTo(SampleContours, MaxContours)
    /\ bevel_segments \in 1..MaxSegments
    /\ profile_power \in ProfilePowers
    /\ offset_library \in SampleLibraries
    /\ next_contour = 1
    /\ polylines = <<>>
    /\ source_of = <<>>
    /\ next_polyline = 1
    /\ bevel_rings = <<>>
    /\ curr_offset = NoOffset
    /\ offset_requests = <<>>
    /\ all_bevel_rings = <<>>
    /\ rings_result = NoResult
    /\ stages_run = <<>>
    /\ run = 1
    /\ first_run = <<>>
    /\ pipeline_result = NoResult

\* The function is called a second time with the contours, the bevel width and
\* the segment count of the first call, and with another profile power.
CallWithOtherProfile ==
    /\ pc = "rings_done"
    /\ run = 1
    /\ first_run' = [profile_power |-> profile_power,
                     offset_requests |-> offset_requests,
                     rings_result |-> rings_result]
    /\ run' = 2
    /\ profile_power' \in ProfilePowers \ {profile_power}
    /\ pc' = "rings_entry"
    /\ next_contour' = 1
    /\ polylines' = <<>>
    /\ source_of' = <<>>
    /\ next_polyline' = 1
    /\ bevel_rings' = <<>>
    /\ curr_offset' = NoOffset
    /\ offset_requests' = <<>>
    /\ all_bevel_rings' = <<>>
    /\ rings_result' = NoResult
    /\ UNCHANGED <<contours, bevel_segments, extractVars, tessVars, meshVars, checkVars,
                   outlineVars, textVars, offset_library, stages_run, pipeline_result>>

NextProfile ==
    \/ RingsEntry
    \/ ConvertContour
    \/ ConvertDone
    \/ LibraryStartPolyline
    \/ LibraryOffsetStep
    \/ AssembleBevelRings
    \/ RingsReturn
    \/ CallWithOtherProfile

SpecProfile == InitProfile /\ [][NextProfile]_vars

\* the distances of the offset requests, per subcontour
RequestedDistances(requests) ==
    [i \in 1..Len(requests) |->
        [k \in 1..Len(requests[i]) |-> requests[i][k].distance]]

-----------------------------------------------------------------------------
(* extrude_glyph.rs, tess.rs, offset.rs: the coordinate spaces of the stages *)

\* the points of the outline's path
PathPointsRead == {path[i] : i \in 1..Len(path)}

\* C24: the contours extract_contours returns, called with the front cap's
\* scale_factor and center_x, are in the coordinate space of the front cap:
\* the x of a contour vertex is the front-cap x, (x - center_x) * scale_factor,
\* of the path point it was read from.
C24_SameCoordinateSpace ==
    (pc = "extract_done" /\ stages_run # <<>>) =>
        \A c \in 1..Len(contours) :
            \A k \in 1..Len(contours[c].vertices) :
                \E p \in PathPointsRead :
                    /\ contours[c].vertices[k] = ToContourSpace(p)
                    /\ contours[c].vertices[k][1] = FrontCapVertex(p)[1]

-----------------------------------------------------------------------------
(* mesh.rs: the classification of the cap contours *)

PositiveArea(contour) ==
    Len(contour.vertices) >= 3 /\ calculate_signed_area(contour.vertices) > 0

NegativeArea(contour) ==
    Len(contour.vertices) >= 3 /\ calculate_signed_area(contour.vertices) < 0

RECURSIVE PointsInOrder(_, _, _)
PointsInOrder(cs, backwards, z) ==
    IF cs = <<>> THEN <<>>
    ELSE LET vs == Head(cs).vertices
         IN  [i \in 1..Len(vs) |->
                 LET v == IF backwards THEN vs[Len(vs) + 1 - i] ELSE vs[i]
                 IN  <<v[1], v[2], z>>]
             \o PointsInOrder(Tail(cs), backwards, z)

\* the points of a cap as the classification by the sign of the area lays
\* them on the path: the contours of positive area as they are, then those of
\* negative area reversed; every contour as it is when none has positive area
PointsByArea(cs, z) ==
    IF SelectSeq(cs, PositiveArea) = <<>>
    THEN PointsInOrder(cs, FALSE, z)
    ELSE PointsInOrder(SelectSeq(cs, PositiveArea), FALSE, z)
             \o PointsInOrder(SelectSeq(cs, NegativeArea), TRUE, z)

OuterContoursOf(rings) == [k \in 1..Len(rings) |-> rings[k].outer_contour]
InnerContoursOf(rings) == [k \in 1..Len(rings) |-> rings[k].inner_contour]

AllHaveThree(cs) == \A k \in 1..Len(cs) : Len(cs[k].vertices) >= 3

\* C25: the ring-only cap tessellation classifies each contour of at least 3
\* vertices by the sign of its shoelace area, positive as outer and negative
\* as hole (added reversed), and takes all contours as outer and none as hole
\* when none classifies as outer; a non-empty list of contours that all have
\* at least 3 vertices yields neither InvalidInput nor InvalidContour.
C25_CapClassification ==
    (pc \in {"ringmesh_done", "ringmesh_caps_done"} /\ cap_attempts # <<>>) =>
        LET outer_contours == OuterContoursOf(all_bevel_rings)
            inner_contours == InnerContoursOf(all_bevel_rings)
            front_points == PointsByArea(outer_contours, 0)
            back_points == PointsByArea(inner_contours, extrusion_depth)
            caps == Len(front_points) + Len(back_points)
        IN  /\ (Len(cap_attempts) = 1 /\ outer_contours # <<>> /\ AllHaveThree(outer_contours)) =>
                   ~IsErr(mesh_result, "InvalidInput") /\ ~IsErr(mesh_result, "InvalidContour")
            /\ (Len(cap_attempts) = 2 /\ inner_contours # <<>> /\ AllHaveThree(inner_contours)) =>
                   ~IsErr(mesh_result, "InvalidInput") /\ ~IsErr(mesh_result, "InvalidContour")
            /\ pc = "ringmesh_caps_done" =>
                   /\ Len(mesh_vertices) >= caps
                   /\ SubSeq(mesh_vertices, Len(mesh_vertices) - caps + 1, Len(mesh_vertices))
                          = front_points \o back_points

\* caps over an outer boundary and a hole, both tessellated
C25_Witness ==
    /\ pc = "ringmesh_caps_done"
    /\ Len(all_bevel_rings) = 2
    /\ \E k \in 1..2 : PositiveArea(all_bevel_rings[k].outer_contour)
    /\ \E k \in 1..2 : NegativeArea(all_bevel_rings[k].outer_contour)

-----------------------------------------------------------------------------
(* mesh.rs: check_mesh on indices out of range *)

\* C26: check_mesh returns a value, Ok or InvalidMesh, for every geometry; a
\* geometry with an index >= vertices.len() is rejected with InvalidMesh, and
\* counting the degenerate triangles never reads a vertex out of bounds.
C26_AlwaysReturns ==
    pc = "check_done" =>
        /\ check_result.kind \in {"Ok", "Err"}
        /\ ~IndicesInRange(mesh_geometry) =>
               /\ check_result.kind = "Err"
               /\ check_result.value.error = "InvalidMesh"

-----------------------------------------------------------------------------
(* text_glyphs.rs: the glyph a cached mesh was built from *)

\* the glyph of the layout whose tessellation gave the mesh asset of a handle
BuiltFrom(handle) == layout_glyphs[meshes[handle].index]

\* C27: within one generate_mesh_glyphs call, the mesh handle (and with it
\* the center offsets stored beside it) attached to a glyph occurrence was
\* built from a glyph with the same glyph_id, font_id and font_size, for any
\* sequence of glyphs mixing fonts and sizes.
C27_MeshOfSameGlyph ==
    \A g \in 1..Len(processed_glyphs) :
        /\ BuiltFrom(processed_glyphs[g].mesh).glyph_id = processed_glyphs[g].glyph_id
        /\ BuiltFrom(processed_glyphs[g].mesh).font_id = processed_glyphs[g].font_id
        /\ BuiltFrom(processed_glyphs[g].mesh).font_size = processed_glyphs[g].height

-----------------------------------------------------------------------------
(* mesh.rs: the side walls of build_mesh_from_bevel_rings *)

\* outer -> intermediates -> inner
AllRingsOf(bevel_ring) ==
    <<bevel_ring.outer_contour>> \o bevel_ring.rings \o <<bevel_ring.inner_contour>>

RECURSIVE VerticesBefore(_, _)
VerticesBefore(rings, r) ==
    IF r <= 1 THEN 0 ELSE VerticesBefore(rings, r - 1) + Len(rings[r - 1].vertices)

RECURSIVE BaseVertexOffset(_)
BaseVertexOffset(k) ==
    IF k <= 1 THEN 0
    ELSE BaseVertexOffset(k - 1)
             + VerticesBefore(AllRingsOf(all_bevel_rings[k - 1]),
                              Len(AllRingsOf(all_bevel_rings[k - 1])) + 1)

\* the indices of the vertices of ring r of the k-th BevelRings
RingRange(k, r) ==
    LET rings == AllRingsOf(all_bevel_rings[k])
        first == BaseVertexOffset(k) + VerticesBefore(rings, r)
    IN  first..(first + Len(rings[r].vertices) - 1)

\* the triangles with a corner on ring r and a corner on ring r + 1
WallTriangles(k, r) ==
    {t \in 0..((Len(mesh_indices) \div 3) - 1) :
        LET corners == {mesh_indices[3 * t + 1], mesh_indices[3 * t + 2],
                        mesh_indices[3 * t + 3]}
        IN  /\ corners \cap RingRange(k, r) # {}
            /\ corners \cap RingRange(k, r + 1) # {}}

\* the edges of a ring: as many as vertices when closed, one less when open
EdgesOf(ring) ==
    IF ring.is_closed THEN Len(ring.vertices) ELSE Max(Len(ring.vertices) - 1, 0)

\* C28: build_mesh_from_bevel_rings emits side-wall quads, 2 triangles per
\* edge, between every pair of consecutive rings of every BevelRings: no pair
\* of rings is left unbridged, whatever their vertex counts.
C28_EveryPairBridged ==
    (pc = "ringmesh_rings" /\ mesh_result.kind = "None") =>
        \A k \in 1..(next_ring - 1) :
            \A r \in 1..(Len(AllRingsOf(all_bevel_rings[k])) - 1) :
                /\ WallTriangles(k, r) # {}
                /\ Cardinality(WallTriangles(k, r))
                       = 2 * EdgesOf(AllRingsOf(all_bevel_rings[k])[r])

-----------------------------------------------------------------------------
(* extrude_glyph.rs: the centre the two tessellation functions return *)

\* tessalate_glyph: (center_x * scale_factor, center_y * scale_factor), with
\* scale_factor = glyph_info.font_size / units_per_em and the centre of the
\* font-unit bounding box
tessalate_glyph_center(box, size, units) ==
    LET scale == size \div units
        cx == (box.x_min + box.x_max) \div 2
        cy == (box.y_min + box.y_max) \div 2
    IN  <<cx * scale, cy * scale>>

\* the centre of the font-unit bounding box in layout units
LayoutCenter(box, size, units) ==
    << (((box.x_min + box.x_max) \div 2) * size) \div units,
       (((box.y_min + box.y_max) \div 2) * size) \div units >>

\* C29: tessalate_glyph and tessellate_beveled_glyph both return as
\* (center_x, center_y) the centre of the font-unit bounding box multiplied by
\* font_size / units_per_em, the layout-unit offset generate_meshes adds to
\* the layout position of the glyph.
C29_CentersInLayoutUnits ==
    (pc = "pipeline_done" /\ pipeline_result.kind = "Ok") =>
        /\ tessalate_glyph_center(bounding_box, font_size, units_per_em)
               = LayoutCenter(bounding_box, font_size, units_per_em)
        /\ <<pipeline_result.value.center_x, pipeline_result.value.center_y>>
               = LayoutCenter(bounding_box, font_size, units_per_em)

-----------------------------------------------------------------------------
(* offset.rs: deduplicate_vertices *)

NoNearNeighbours(vs) == \A i \in 1..(Len(vs) - 1) : ~Near(vs[i], vs[i + 1])

\* C30: deduplicate_vertices leaves no two consecutive vertices closer than
\* the tolerance, returns an order-preserving subsequence of its input that
\* keeps the first vertex, and is idempotent: a second call changes nothing.
C30_DeduplicateIdempotent ==
    \A c \in 1..Len(contours) :
        LET vertices == contours[c].vertices
            once == deduplicate_vertices(vertices)
        IN  /\ IsSubsequence(once, vertices)
            /\ vertices # <<>> => (once # <<>> /\ once[1] = vertices[1])
            /\ NoNearNeighbours(once)
            /\ deduplicate_vertices(once) = once

=============================================================================
